---- MODULE Spec2Model ----
(***************************************************************************)
(* A model of the ranking core of the Bible query backend:                 *)
(*   backend/search_keyword.py   the keyword ranker                        *)
(*   backend/search_semantic.py  the semantic ranker, its lazily loaded    *)
(*                               model and index, and the index build      *)
(*   backend/app_refactored.py   the /semantic_search request handler      *)
(*                                                                         *)
(* Strings are sequences of one-character strings.  Scores are exact:      *)
(* a keyword score is an integer number of hundredths (round(score, 2)),   *)
(* a similarity is an integer number of 1/100000 (so that rounding to 4    *)
(* decimals is a real step).  A function returns an outcome record:        *)
(* [kind |-> "return", value |-> ...] or [kind |-> "raise", exc |-> ...].  *)
(***************************************************************************)
EXTENDS Integers, Sequences, FiniteSets, TLC

VARIABLES
    verses,         \* app.verses: the Verse Store, loaded at startup
    call,           \* the call in progress: its arguments and its outcome
    indexFile,      \* config.FAISS_INDEX_FILE on disk
    mappingFile,    \* config.VERSE_MAPPING_FILE on disk
    embeddingsFile, \* config.EMBEDDINGS_FILE on disk
    build,          \* the position of a running generate_embeddings
    _model,         \* search_semantic._model
    _faiss_index,   \* search_semantic._faiss_index
    _verse_ids,     \* search_semantic._verse_ids
    summarizer,     \* commentary_summarizer._model, _tokenizer and _device
    cache,          \* the files of the commentary cache directory, by cache key
    threads,        \* the calls running concurrently: position and locals of each
    loads,          \* how often the embedding model and the index were loaded
    lastFull,       \* per cache key, the text of the last successful generation
    memo            \* an earlier search_keyword call, kept to compare a later one

vars == <<verses, call, indexFile, mappingFile, embeddingsFile, build,
          _model, _faiss_index, _verse_ids,
          summarizer, cache, threads, loads, lastFull, memo>>

diskVars == <<indexFile, mappingFile, embeddingsFile, build>>
lazyVars == <<_model, _faiss_index, _verse_ids>>
commentaryVars == <<summarizer, cache, lastFull>>
threadVars == <<threads, loads>>
otherVars == <<summarizer, cache, lastFull, threads, loads, memo>>

----------------------------------------------------------------------------
(* Bounds of the model *)

MaxVerses == 2
MaxQueryLen == 3
MaxResults == 2

----------------------------------------------------------------------------
(* Characters and strings *)

Alphabet == {"a", "b", "A", " ", "."}

IsSpace(c) == c = " "

\* the characters of the model that \w does not match
NonWordChars == {" ", ".", "-", "|", ":", ",", "?", "&"}

IsWordChar(c) == c \notin NonWordChars

LowerChar(c) == IF c = "A" THEN "a" ELSE c

Min(a, b) == IF a < b THEN a ELSE b

Max(a, b) == IF a > b THEN a ELSE b

\* str.lower()
lower(s) == [i \in 1..Len(s) |-> LowerChar(s[i])]

RECURSIVE lstrip(_)
lstrip(s) ==
    IF s = <<>> THEN s
    ELSE IF IsSpace(Head(s)) THEN lstrip(Tail(s)) ELSE s

RECURSIVE rstrip(_)
rstrip(s) ==
    IF s = <<>> THEN s
    ELSE IF IsSpace(s[Len(s)]) THEN rstrip(SubSeq(s, 1, Len(s) - 1)) ELSE s

\* str.strip()
strip(s) == rstrip(lstrip(s))

\* re.findall(r'\w+', s): the maximal runs of word characters, in order
RECURSIVE findall_w(_, _, _)
findall_w(s, cur, acc) ==
    IF s = <<>> THEN (IF cur = <<>> THEN acc ELSE Append(acc, cur))
    ELSE IF IsWordChar(Head(s))
         THEN findall_w(Tail(s), Append(cur, Head(s)), acc)
         ELSE findall_w(Tail(s), <<>>, IF cur = <<>> THEN acc ELSE Append(acc, cur))

\* the 0-based offsets at which p occurs in s
Occurrences(s, p) ==
    {i \in 0..(Len(s) - Len(p)) : SubSeq(s, i + 1, i + Len(p)) = p}

\* p in s
Contains(s, p) == Occurrences(s, p) # {}

SetMin(S) == CHOOSE x \in S : \A y \in S : x <= y

\* s.find(p): the lowest offset, or -1
find(s, p) == IF Occurrences(s, p) = {} THEN 0 - 1 ELSE SetMin(Occurrences(s, p))

\* s.count(p): the number of non-overlapping occurrences, scanning from the left
RECURSIVE CountFrom(_, _, _)
CountFrom(s, p, from) ==
    LET later == {i \in Occurrences(s, p) : i >= from}
    IN  IF later = {} THEN 0
        ELSE 1 + CountFrom(s, p, SetMin(later) + Max(Len(p), 1))

count(s, p) == CountFrom(s, p, 0)

\* all strings over Alphabet of length at most n
StringsUpTo(n) == UNION {[1..k -> Alphabet] : k \in 0..n}

----------------------------------------------------------------------------
(* backend/search_keyword.py *)

PositionWindow == 50
LengthDivisor == 500

Return(v) == [kind |-> "return", value |-> v]
Raise(e) == [kind |-> "raise", exc |-> e]

\* n/d rounded to the nearest integer, halves to the even one (Python's round)
RoundHalfEven(n, d) ==
    LET q == n \div d
        r == n % d
    IN  IF 2 * r < d THEN q
        ELSE IF 2 * r > d THEN q + 1
        ELSE IF q % 2 = 0 THEN q ELSE q + 1

RECURSIVE TermFrequency(_, _)
TermFrequency(text_lower, query_terms) ==
    IF query_terms = <<>> THEN 0
    ELSE count(text_lower, Head(query_terms))
         + TermFrequency(text_lower, Tail(query_terms))

\* The score as a fraction over ScoreDen(query_terms) = 1000 * len(query_terms),
\* which makes every summand an integer:
\*   10.0 and 2.0 per phrase occurrence, 1.5 per term occurrence,
\*   5.0 * matching_terms / len(query_terms),
\*   3.0 - position / 50 * 2.0 when position < 50,  - text_length / 500.
ScoreDen(query_terms) == 2 * LengthDivisor * Len(query_terms)

\* a score without the 10.0 of the exact phrase
ScoreNumNoPhraseBonus(text_lower, query_lower, query_terms, exact_match, matching_terms, text_length) ==
    LET D == ScoreDen(query_terms)
        L == Len(query_terms)
        position == find(text_lower, query_lower)
    IN    (IF exact_match THEN count(text_lower, query_lower) * 2 * D ELSE 0)
        + TermFrequency(text_lower, query_terms) * 3 * LengthDivisor * L
        + matching_terms * 5 * 2 * LengthDivisor
        + (IF exact_match /\ position < PositionWindow
           THEN 3 * D - position * 2 * (D \div PositionWindow) ELSE 0)
        - text_length * 2 * L

ScoreNum(text_lower, query_lower, query_terms, exact_match, matching_terms, text_length) ==
    LET D == ScoreDen(query_terms)
        L == Len(query_terms)
        position == find(text_lower, query_lower)
    IN    (IF exact_match THEN 10 * D + count(text_lower, query_lower) * 2 * D ELSE 0)
        + TermFrequency(text_lower, query_terms) * 3 * LengthDivisor * L
        + matching_terms * 5 * 2 * LengthDivisor
        + (IF exact_match /\ position < PositionWindow
           THEN 3 * D - position * 2 * (D \div PositionWindow) ELSE 0)
        - text_length * 2 * L

\* _calculate_relevance_score followed by round(score, 2): hundredths, or the
\* ZeroDivisionError of matching_terms / len(query_terms)
_calculate_relevance_score(text_lower, query_lower, query_terms, exact_match, matching_terms, text_length) ==
    IF Len(query_terms) = 0 THEN Raise("ZeroDivisionError")
    ELSE Return(RoundHalfEven(
            100 * ScoreNum(text_lower, query_lower, query_terms, exact_match,
                           matching_terms, text_length),
            ScoreDen(query_terms)))

\* {**verse, "relevance_score": score}: a new record with every field of the
\* verse and the score, the stored verse left as it is
WithScore(verse, score) ==
    [f \in DOMAIN verse \cup {"relevance_score"} |->
        IF f = "relevance_score" THEN score ELSE verse[f]]

\* a count of the different query terms found in the text
MatchingTermsDistinct(text_lower, query_terms) ==
    Cardinality({query_terms[i] : i \in {j \in 1..Len(query_terms) :
                                            Contains(text_lower, query_terms[j])}})

\* if exact_match or matching_terms > 0
IsCandidate(exact_match, matching_terms) == exact_match \/ matching_terms > 0

\* sum(1 for term in query_terms if term in text_lower)
MatchingTerms(text_lower, query_terms) ==
    Cardinality({i \in 1..Len(query_terms) : Contains(text_lower, query_terms[i])})

\* the for loop of search_keyword over verses[i..], results holding the matches so far
RECURSIVE ScanVerses(_, _, _, _, _)
ScanVerses(vs, i, query_lower, query_terms, results) ==
    IF i > Len(vs) THEN Return(results)
    ELSE
        LET verse == vs[i]
            text_lower == lower(verse.text)
            exact_match == Contains(text_lower, query_lower)
            matching_terms == MatchingTerms(text_lower, query_terms)
            score == _calculate_relevance_score(text_lower, query_lower, query_terms,
                         exact_match, matching_terms, Len(verse.text))
        IN  IF IsCandidate(exact_match, matching_terms)
            THEN IF score.kind = "raise" THEN score
                 ELSE ScanVerses(vs, i + 1, query_lower, query_terms,
                          Append(results, WithScore(verse, score.value)))
            ELSE ScanVerses(vs, i + 1, query_lower, query_terms, results)

\* a sort that is not stable: x goes in front of the elements with an equal key
InsertPositionUnstable(rs, x) ==
    Cardinality({i \in 1..Len(rs) : rs[i].relevance_score > x.relevance_score})

\* where a stable descending sort puts x among the already sorted rs:
\* behind every element whose key is greater or equal
InsertPosition(rs, x) ==
    Cardinality({i \in 1..Len(rs) : rs[i].relevance_score >= x.relevance_score})

\* results.sort(key=lambda x: x["relevance_score"], reverse=True)
RECURSIVE SortByScore(_)
SortByScore(rs) ==
    IF rs = <<>> THEN rs
    ELSE LET front == SortByScore(SubSeq(rs, 1, Len(rs) - 1))
             x == rs[Len(rs)]
             k == InsertPosition(front, x)
         IN  SubSeq(front, 1, k) \o <<x>> \o SubSeq(front, k + 1, Len(front))

\* rs[:stop] for an integer stop
SliceTo(rs, stop) ==
    SubSeq(rs, 1, IF stop < 0 THEN Max(Len(rs) + stop, 0) ELSE Min(stop, Len(rs)))

\* the guard without its strip(): only the empty string is blank
IsBlankNoStrip(query) == query = <<>>

\* not query or not query.strip()
IsBlank(query) == query = <<>> \/ strip(query) = <<>>

\* the sorted match list, before results[:max_results]
KeywordMatches(vs, query) ==
    LET query_lower == strip(lower(query))
        scanned == ScanVerses(vs, 1, query_lower, findall_w(query_lower, <<>>, <<>>), <<>>)
    IN  IF scanned.kind = "raise" THEN scanned
        ELSE Return(SortByScore(scanned.value))

search_keyword(vs, query, max_results) ==
    IF IsBlank(query) THEN Return(<<>>)
    ELSE LET matches == KeywordMatches(vs, query)
         IN  IF matches.kind = "raise" THEN matches
             ELSE Return(SliceTo(matches.value, max_results))

----------------------------------------------------------------------------
(* The Verse Store and the calls made on it *)

\* fifty characters that no query contains, to put a phrase beyond the
\* position window
Filler == [i \in 1..PositionWindow |-> "-"]

TextPool ==
    { <<"a", " ", "b">>,
      <<"A", " ", "b", ".">>,
      <<"b", " ", "a">>,
      <<"b", "b", ".">>,
      Filler \o <<"a", " ", "b">> }

Digits == <<"1", "2", "3", "4", "5", "6", "7", "8", "9">>

\* str(n) for a one-digit number
str(n) == <<Digits[n]>>

\* the book, chapter and verse number of line i of the corpus:
\* Ab 1:1, Ab 1:2, b 1:1, b 2:1, Ab 1:3, ...
BookOf(i) == IF i % 4 \in {1, 2} THEN <<"A", "b">> ELSE <<"b">>
ChapterOf(i) == IF i % 4 = 0 THEN 2 ELSE 1
VerseOf(i) == (IF i % 4 = 2 THEN 2 ELSE 1) + 2 * ((i - 1) \div 4)

\* data_loader.load_verses: one record per line of the corpus, in file order,
\* with reference = f"{book} {chapter}:{verse}"; ref is the line number, the
\* identity of the record
LoadVerses(texts) ==
    [i \in 1..Len(texts) |->
        [ref |-> i, book |-> BookOf(i), chapter |-> ChapterOf(i), verse |-> VerseOf(i),
         text |-> texts[i],
         reference |-> BookOf(i) \o <<" ">> \o str(ChapterOf(i)) \o <<":">> \o str(VerseOf(i))]]

KeywordStores == {LoadVerses(t) : t \in UNION {[1..n -> TextPool] : n \in 0..MaxVerses}}

KeywordQueries == StringsUpTo(MaxQueryLen)

MaxResultsValues == (0 - 1)..MaxResults

Idle == [op |-> "idle"]

NoFile == [exists |-> FALSE]
None == [set |-> FALSE]
NoBuild == [pc |-> "idle", last |-> "none"]

\* the process has started: no commentary model loaded, no call running, and
\* an empty commentary cache directory
OtherInit ==
    /\ summarizer = None
    /\ cache = <<>>
    /\ threads = <<>>
    /\ loads = [model |-> 0, index |-> 0]
    /\ lastFull = <<>>
    /\ memo = Idle

\* a call of search_keyword on the store
SearchKeyword(query, max_results) ==
    /\ call = Idle
    /\ call' = [op |-> "search_keyword", query |-> query, max_results |-> max_results,
                outcome |-> search_keyword(verses, query, max_results)]
    /\ UNCHANGED <<verses, diskVars, lazyVars, otherVars>>

\* the caller takes the outcome; the next call can start
Complete ==
    /\ call # Idle
    /\ call' = Idle
    /\ UNCHANGED <<verses, diskVars, lazyVars, otherVars>>

InitKeyword ==
    /\ verses \in KeywordStores
    /\ call = Idle
    /\ indexFile = NoFile
    /\ mappingFile = NoFile
    /\ embeddingsFile = NoFile
    /\ build = NoBuild
    /\ _model = None
    /\ _faiss_index = None
    /\ _verse_ids = None
    /\ OtherInit

NextKeyword ==
    \/ \E query \in KeywordQueries, max_results \in MaxResultsValues :
           SearchKeyword(query, max_results)
    \/ Complete

SpecKeyword == InitKeyword /\ [][NextKeyword]_vars

----------------------------------------------------------------------------
(* search_keyword on a store with very long verse texts: load_verses takes the
   text of a line of the corpus whatever its length *)

\* a text of n characters that ends with the word "a"
LongText(n) == [i \in 1..(n - 1) |-> "-"] \o <<"a">>

\* the lengths on both sides of the one where the length penalty of a verse
\* that contains a one-word query once, late in the text, outweighs the rest
LongTextPool == {<<"a", " ", "b">>, LongText(4252), LongText(4253)}

LongStores == {LoadVerses(t) : t \in UNION {[1..n -> LongTextPool] : n \in 0..MaxVerses}}

LongQueries == {<<"a">>, <<"A">>, <<"b">>, <<"a", " ", "b">>}

InitLongVerse ==
    /\ verses \in LongStores
    /\ call = Idle
    /\ indexFile = NoFile
    /\ mappingFile = NoFile
    /\ embeddingsFile = NoFile
    /\ build = NoBuild
    /\ _model = None
    /\ _faiss_index = None
    /\ _verse_ids = None
    /\ OtherInit

NextLongVerse ==
    \/ \E query \in LongQueries, max_results \in MaxResultsValues :
           SearchKeyword(query, max_results)
    \/ Complete

SpecLongVerse == InitLongVerse /\ [][NextLongVerse]_vars

----------------------------------------------------------------------------
(* backend/search_semantic.py *)

\* config.SEMANTIC_SEARCH_SIMILARITY_THRESHOLD = 0.3, in units of 1/100000
SEMANTIC_SEARCH_SIMILARITY_THRESHOLD == 30000

\* the similarities a stored vector can have to a query, in units of 1/100000:
\* below the default threshold, just above it (0.30004 rounds to 0.3), well above
SimLevels == {29996, 30004, 50000}

\* round(float(similarity), 4), in the same unit
Round4(similarity) == 10 * RoundHalfEven(similarity, 10)

Loaded == [set |-> TRUE]
IndexOf(n) == [set |-> TRUE, ntotal |-> n]
IdsOf(ids) == [set |-> TRUE, ids |-> ids]

IndexFileOf(n) == [exists |-> TRUE, ntotal |-> n]
MappingFileOf(ids) == [exists |-> TRUE, ids |-> ids]
EmbeddingsFileOf(n) == [exists |-> TRUE, rows |-> n]

\* the lazily loaded state as one record
Lazy(m, fi, vi) == [model |-> m, index |-> fi, ids |-> vi]

\* _load_model: the memoized model (its package is installed)
_load_model(m) == IF m.set THEN m ELSE Loaded

\* _load_index: the outcome, and _faiss_index and _verse_ids after the call
_load_index(fi, vi) ==
    IF fi.set THEN [outcome |-> Return(<<>>), index |-> fi, ids |-> vi]
    ELSE IF ~indexFile.exists
         THEN [outcome |-> Raise("FileNotFoundError"), index |-> fi, ids |-> vi]
    ELSE IF ~mappingFile.exists
         THEN [outcome |-> Raise("FileNotFoundError"), index |-> fi, ids |-> vi]
    ELSE [outcome |-> Return(<<>>),
          index |-> IndexOf(indexFile.ntotal), ids |-> IdsOf(mappingFile.ids)]

\* what index.search(query_embedding, k) can hand back for k > 0: k distinct
\* positions of the index with their inner products, the largest first.  The
\* embedding model is not modelled: every similarity assignment is possible.
Candidates(ntotal, k) ==
    {c \in [1..k -> [idx : 0..(ntotal - 1), similarity : SimLevels]] :
        /\ \A i, j \in 1..k : i < j => c[i].idx # c[j].idx
        /\ \A i, j \in 1..k : i < j => c[i].similarity >= c[j].similarity}

\* index.search: faiss asserts k > 0; releases without that assertion answer
\* k = 0 with empty arrays and fail on a negative k when allocating them
IndexSearch(ntotal, k) ==
    IF k < 0 THEN {Raise("AssertionError")}
    ELSE IF k = 0 THEN {Raise("AssertionError"), Return(<<>>)}
    ELSE {Return(c) : c \in Candidates(ntotal, k)}

\* a filter that lets every candidate through
BelowThresholdNever(similarity, min_similarity) == FALSE

\* similarity < min_similarity
BelowThreshold(similarity, min_similarity) == similarity < min_similarity

\* the early stop off by one
ReachedMaxLate(results, max_results) == Len(results) > max_results

\* len(results) >= max_results
ReachedMax(results, max_results) == Len(results) >= max_results

\* a loop that puts each new result in front of the earlier ones
ResultsPrepend(results, entry) == <<entry>> \o results

\* results.append(entry)
ResultsAppend(results, entry) == Append(results, entry)

\* the for loop of search_semantic over the candidates i.. of the index
RECURSIVE CollectResults(_, _, _, _, _, _, _)
CollectResults(vs, verse_ids, cands, i, min_similarity, max_results, results) ==
    IF i > Len(cands) THEN Return(results)
    ELSE IF BelowThreshold(cands[i].similarity, min_similarity)
         THEN CollectResults(vs, verse_ids, cands, i + 1, min_similarity,
                             max_results, results)
    ELSE IF ~verse_ids.set THEN Raise("TypeError")
    ELSE IF cands[i].idx >= Len(verse_ids.ids) THEN Raise("IndexError")
    ELSE IF verse_ids.ids[cands[i].idx + 1] >= Len(vs) THEN Raise("IndexError")
    ELSE LET verse == vs[verse_ids.ids[cands[i].idx + 1] + 1]
             grown == ResultsAppend(results, WithScore(verse, Round4(cands[i].similarity)))
         IN  IF ReachedMax(grown, max_results) THEN Return(grown)
             ELSE CollectResults(vs, verse_ids, cands, i + 1, min_similarity,
                                 max_results, grown)

\* min_similarity as the call uses it
Threshold(min_similarity) ==
    IF min_similarity.set THEN min_similarity.value
    ELSE SEMANTIC_SEARCH_SIMILARITY_THRESHOLD

\* the index was not searched
NoSearch == [kind |-> "none"]

\* search_semantic from the point where the model and the index are loaded; hits
\* is what index.search answered
RankLoaded(vs, max_results, min_similarity, m, loaded) ==
    IF loaded.outcome.kind = "raise"
    THEN {[outcome |-> loaded.outcome, lazy |-> Lazy(m, loaded.index, loaded.ids),
           hits |-> NoSearch]}
    ELSE {[outcome |-> IF hits.kind = "raise" THEN hits
                       ELSE CollectResults(vs, loaded.ids, hits.value, 1,
                                Threshold(min_similarity), max_results, <<>>),
           lazy |-> Lazy(m, loaded.index, loaded.ids),
           hits |-> hits] :
            hits \in IndexSearch(loaded.index.ntotal,
                                 Min(max_results * 3, loaded.index.ntotal))}

\* search_semantic with the blank-query guard behind the loading
search_semantic_LoadsFirst(vs, query, max_results, min_similarity, lazy) ==
    LET ranked == RankLoaded(vs, max_results, min_similarity, _load_model(lazy.model),
                             _load_index(lazy.index, lazy.ids))
    IN  IF IsBlank(query)
        THEN {[outcome |-> Return(<<>>), lazy |-> r.lazy, hits |-> r.hits] : r \in ranked}
        ELSE ranked

\* search_semantic: the possible outcomes of a call made with the lazily loaded
\* state lazy, each with the lazily loaded state it leaves
search_semantic(vs, query, max_results, min_similarity, lazy) ==
    IF IsBlank(query) THEN {[outcome |-> Return(<<>>), lazy |-> lazy, hits |-> NoSearch]}
    ELSE RankLoaded(vs, max_results, min_similarity, _load_model(lazy.model),
                    _load_index(lazy.index, lazy.ids))

\* get_embedding_stats()['index_exists']
index_exists == indexFile.exists

----------------------------------------------------------------------------
(* The service: startup, the semantic calls, and the offline index build *)

\* line i of the corpus file kjv_chunks.jsonl
CorpusLine(i) ==
    CASE i % 3 = 1 -> <<"a", " ", "b">>
      [] i % 3 = 2 -> <<"A", " ", "b", ".">>
      [] OTHER     -> <<"b", " ", "a">>

\* the stores load_verses can produce: the corpus as it stands at load time
SystemStores == {LoadVerses([i \in 1..n |-> CorpusLine(i)]) : n \in 0..MaxVerses}

SystemQueries == {<<>>, <<" ">>, <<"a">>}

Some(v) == [set |-> TRUE, value |-> v]

MinSimilarities == {None, Some(30004), Some(50000)}

\* startup(): the process starts with the module globals unset and loads the store
Startup ==
    /\ call = Idle
    /\ verses' \in SystemStores
    /\ _model' = None
    /\ _faiss_index' = None
    /\ _verse_ids' = None
    /\ UNCHANGED <<call, diskVars, otherVars>>

\* a call of search_semantic on the store
SearchSemantic(query, max_results, min_similarity) ==
    /\ call = Idle
    /\ \E r \in search_semantic(verses, query, max_results, min_similarity,
                                Lazy(_model, _faiss_index, _verse_ids)) :
           /\ call' = [op |-> "search_semantic", query |-> query,
                       max_results |-> max_results, min_similarity |-> min_similarity,
                       outcome |-> r.outcome, hits |-> r.hits]
           /\ _model' = r.lazy.model
           /\ _faiss_index' = r.lazy.index
           /\ _verse_ids' = r.lazy.ids
    /\ UNCHANGED <<verses, diskVars, otherVars>>

\* the answer of the handler: the HTTP status, the body of a 200, the exception
\* named in the detail of a 500, and the structured log entry written
Response(query, max_results, min_similarity, status, body, detail, log) ==
    [op |-> "/semantic_search", query |-> query, max_results |-> max_results,
     min_similarity |-> min_similarity, status |-> status, body |-> body,
     detail |-> detail, log |-> log]

\* POST /semantic_search
semantic_search(query, max_results, min_similarity) ==
    /\ call = Idle
    /\ IF IsBlank(query)
       THEN /\ call' = Response(query, max_results, min_similarity, 400, <<>>,
                                "Query cannot be empty", "none")
            /\ UNCHANGED lazyVars
       ELSE IF ~index_exists
       THEN /\ call' = Response(query, max_results, min_similarity, 503, <<>>,
                                "Semantic search not available", "none")
            /\ UNCHANGED lazyVars
       ELSE \E r \in search_semantic(verses, query, max_results, min_similarity,
                                     Lazy(_model, _faiss_index, _verse_ids)) :
                /\ call' = IF r.outcome.kind = "return"
                           THEN Response(query, max_results, min_similarity, 200,
                                         r.outcome.value, "", "log_search")
                           ELSE Response(query, max_results, min_similarity, 500,
                                         <<>>, r.outcome.exc, "log_error")
                /\ _model' = r.lazy.model
                /\ _faiss_index' = r.lazy.index
                /\ _verse_ids' = r.lazy.ids
    /\ UNCHANGED <<verses, diskVars, otherVars>>

\* generate_embeddings(vs, force), run by generate_embeddings.py in a process of
\* its own, up to and including faiss.write_index
generate_embeddings(vs, force) ==
    /\ build.pc = "idle"
    /\ IF ~force /\ indexFile.exists /\ mappingFile.exists
       THEN /\ build' = [pc |-> "idle", last |-> "cached"]
            /\ UNCHANGED indexFile
       ELSE IF Len(vs) = 0
       THEN /\ build' = [pc |-> "idle", last |-> "ValueError"]
            /\ UNCHANGED indexFile
       ELSE /\ indexFile' = IndexFileOf(Len(vs))
            /\ build' = [pc |-> "index_written", last |-> "running", n |-> Len(vs)]
    /\ UNCHANGED <<verses, call, mappingFile, embeddingsFile, lazyVars, otherVars>>

\* verse_ids = list(range(len(verses)))
Range(n) == [i \in 1..n |-> i - 1]

\* generate_embeddings: json.dump(verse_ids, f) into the mapping file
generate_embeddings_mapping ==
    /\ build.pc = "index_written"
    /\ mappingFile' = MappingFileOf(Range(build.n))
    /\ build' = [build EXCEPT !.pc = "mapping_written"]
    /\ UNCHANGED <<verses, call, indexFile, embeddingsFile, lazyVars, otherVars>>

\* generate_embeddings: np.save(config.EMBEDDINGS_FILE, embeddings), and the return
generate_embeddings_save ==
    /\ build.pc = "mapping_written"
    /\ embeddingsFile' = EmbeddingsFileOf(build.n)
    /\ build' = [pc |-> "idle", last |-> "generated"]
    /\ UNCHANGED <<verses, call, indexFile, mappingFile, lazyVars, otherVars>>

\* the build fails or is stopped between two of its writes
generate_embeddings_interrupted ==
    /\ build.pc \in {"index_written", "mapping_written"}
    /\ build' = [pc |-> "idle", last |-> "interrupted"]
    /\ UNCHANGED <<verses, call, indexFile, mappingFile, embeddingsFile, lazyVars, otherVars>>

Init ==
    /\ verses \in SystemStores
    /\ call = Idle
    /\ indexFile = NoFile
    /\ mappingFile = NoFile
    /\ embeddingsFile = NoFile
    /\ build = NoBuild
    /\ _model = None
    /\ _faiss_index = None
    /\ _verse_ids = None
    /\ OtherInit

Next ==
    \/ Startup
    \/ \E query \in SystemQueries, max_results \in MaxResultsValues,
          min_similarity \in MinSimilarities :
           SearchSemantic(query, max_results, min_similarity)
    \/ \E query \in SystemQueries, max_results \in MaxResultsValues,
          min_similarity \in MinSimilarities :
           semantic_search(query, max_results, min_similarity)
    \/ \E vs \in SystemStores, force \in BOOLEAN : generate_embeddings(vs, force)
    \/ generate_embeddings_mapping
    \/ generate_embeddings_save
    \/ generate_embeddings_interrupted
    \/ Complete

Spec == Init /\ [][Next]_vars

----------------------------------------------------------------------------
(* backend/commentary_summarizer.py *)

\* len(commentary) < 20
MinCommentaryLength == 20

\* verses[:10]
CachedVerseIds == 10

\* ord(c) for the characters of a reference
CharOrd(c) ==
    CASE c = " " -> 32
      [] c = ":" -> 58
      [] c = "A" -> 65
      [] c = "a" -> 97
      [] c = "b" -> 98
      [] OTHER   -> 48 + (CHOOSE d \in 1..9 : Digits[d] = c)

\* a <= b for two strings
RECURSIVE StrLessEq(_, _)
StrLessEq(a, b) ==
    IF a = <<>> THEN TRUE
    ELSE IF b = <<>> THEN FALSE
    ELSE IF CharOrd(Head(a)) < CharOrd(Head(b)) THEN TRUE
    ELSE IF CharOrd(Head(a)) > CharOrd(Head(b)) THEN FALSE
    ELSE StrLessEq(Tail(a), Tail(b))

\* sorted(xs) for a list of strings
RECURSIVE sorted(_)
sorted(xs) ==
    IF xs = <<>> THEN xs
    ELSE LET front == sorted(SubSeq(xs, 1, Len(xs) - 1))
             x == xs[Len(xs)]
             k == Cardinality({i \in 1..Len(front) : StrLessEq(front[i], x)})
         IN  SubSeq(front, 1, k) \o <<x>> \o SubSeq(front, k + 1, Len(front))

\* sep.join(xs)
RECURSIVE join(_, _)
join(sep, xs) ==
    IF xs = <<>> THEN <<>>
    ELSE IF Len(xs) = 1 THEN xs[1]
    ELSE xs[1] \o sep \o join(sep, Tail(xs))

\* _create_cache_key: the md5 hex digest of f"{query}|{'|'.join(sorted(verse_ids))}".
\* The digest stands for its content: two contents have the same key exactly
\* when they are the same string.
_create_cache_key(query, verse_ids) == query \o <<"|">> \o join(<<"|">>, sorted(verse_ids))

\* json.dump of the cache entry.  Only the commentary is read back, so the entry
\* is the commentary between the two delimiters of the JSON object.
json_dump(commentary) == <<"{">> \o commentary \o <<"}">>

\* json.load of a cache file: the commentary of a well-formed entry, or the
\* JSONDecodeError of an empty, cut or overwritten one
json_load(data) ==
    IF /\ Len(data) >= 2
       /\ data[1] = "{"
       /\ data[Len(data)] = "}"
       /\ \A i \in 2..(Len(data) - 1) : data[i] \notin {"{", "}"}
    THEN Return(SubSeq(data, 2, Len(data) - 1))
    ELSE Raise("JSONDecodeError")

\* _load_cache: the cached commentary, or None when there is no file or it
\* cannot be read; cch maps the cache keys that have a file to its content
_load_cache(cache_key, cch) ==
    IF cache_key \in DOMAIN cch
    THEN LET data == json_load(cch[cache_key])
         IN  IF data.kind = "return" THEN Some(data.value) ELSE None
    ELSE None

\* open(cache_file, 'w') and json.dump in one piece: the file holds the new entry
WriteFile(cch, cache_key, data) ==
    [k \in DOMAIN cch \cup {cache_key} |-> IF k = cache_key THEN data ELSE cch[k]]

\* _save_cache: the directory after the call; a write error (written = FALSE) is
\* logged and swallowed, and the directory stays as it was
_save_cache(cache_key, commentary, cch, written) ==
    IF written THEN WriteFile(cch, cache_key, json_dump(commentary)) ELSE cch

Text1 == [i \in 1..MinCommentaryLength |-> "x"]
Text2 == [i \in 1..(MinCommentaryLength + 1) |-> "y"]
ShortText == [i \in 1..(MinCommentaryLength - 1) |-> "s"]

\* the phrases that mark a commentary as an echo of its instructions
EchoPhrases ==
    { <<"e", "x", "p", "l", "a", "i", "n", " ", "w", "h", "a", "t">>,
      <<"r", "e", "q", "u", "i", "r", "e", "m", "e", "n", "t", "s", ":">>,
      <<"p", "r", "o", "v", "i", "d", "e", " ", "a", " ", "m", "e", "a", "n", "i", "n", "g", "f", "u", "l">> }

EchoText == <<"e", "x", "p", "l", "a", "i", "n", " ", "w", "h", "a", "t">> \o Text1

\* what tokenizer(...), model.generate(...), tokenizer.decode(...) and the
\* clean-up of the decoded text can hand to the validation: an exception of the
\* tokenizer or the model, or a text (generation samples: do_sample=True)
Generations ==
    {Raise("RuntimeError"), Return(Text1), Return(Text2), Return(ShortText), Return(EchoText)}

\* the validation of the cleaned-up text
Validate(commentary) ==
    IF Len(commentary) < MinCommentaryLength THEN Raise("ValueError")
    ELSE IF \E phrase \in EchoPhrases : Contains(lower(commentary), phrase)
         THEN Raise("ValueError")
    ELSE Return(commentary)

\* commentary_summarizer._load_model: the memoized model, or a first load that
\* succeeds or fails on a missing dependency
LoadSummarizer(summ) ==
    IF summ.set THEN {Return(summ)} ELSE {Return(Loaded), Raise("ImportError")}

\* "No verses found to generate commentary."
NoVersesText == <<"N">>

\* the fallback text of the except branch: the references of the first one, two
\* or three verses
FallbackText(vs) ==
    <<"F">> \o vs[1].reference
        \o (IF Len(vs) > 1 THEN <<",">> \o vs[2].reference ELSE <<>>)
        \o (IF Len(vs) > 2 THEN <<"&">> \o vs[3].reference ELSE <<>>)
        \o <<".">>

\* the cache key generate_commentary uses for a query and a ranked verse list
CacheKeyOf(query, vs) ==
    _create_cache_key(query, [i \in 1..Min(Len(vs), CachedVerseIds) |-> vs[i].reference])

\* a generation that saves its commentary whatever use_cache says
SaveIfUseCacheAlways(use_cache, saved, cch) == saved

\* if use_cache: _save_cache(...): the cache directory after a validated
\* generation, saved being the directory _save_cache leaves
SaveIfUseCache(use_cache, saved, cch) == IF use_cache THEN saved ELSE cch

\* generate_commentary from the try block on: generation, validation, the cache
\* write and the return, or the fallback of the except branch
Generate(query, vs, use_cache, cch, generation, written) ==
    LET checked == IF generation.kind = "raise" THEN generation
                   ELSE Validate(generation.value)
        verses_used == Min(Len(vs), CachedVerseIds)
    IN  IF checked.kind = "return"
        THEN [outcome |-> Return([commentary |-> checked.value,
                                  verses_used |-> verses_used,
                                  commentary_mode |-> "full",
                                  model_info |-> [model |-> "google/flan-t5-large"]]),
              cache |-> SaveIfUseCache(use_cache,
                            _save_cache(CacheKeyOf(query, vs), checked.value, cch, written),
                            cch)]
        ELSE [outcome |-> Return([commentary |-> FallbackText(vs),
                                  verses_used |-> verses_used,
                                  commentary_mode |-> "fallback",
                                  model_info |-> [source |-> "fallback",
                                                  error |-> checked.exc]]),
              cache |-> cch]

\* generate_commentary(query, verses, use_cache=use_cache): the possible outcomes
\* of a call made with cache directory cch and model state summ, each with the
\* cache directory and the model state it leaves
generate_commentary(query, vs, use_cache, cch, summ) ==
    IF vs = <<>>
    THEN {[outcome |-> Return([commentary |-> NoVersesText, verses_used |-> 0,
                               model_info |-> None]),
           cache |-> cch, summarizer |-> summ]}
    ELSE LET cached == IF use_cache THEN _load_cache(CacheKeyOf(query, vs), cch) ELSE None
         IN  IF cached.set /\ cached.value # <<>>
             THEN {[outcome |-> Return([commentary |-> cached.value,
                                        verses_used |-> Min(Len(vs), CachedVerseIds),
                                        model_info |-> [source |-> "cache"]]),
                    cache |-> cch, summarizer |-> summ]}
             ELSE UNION {
                    IF loaded.kind = "raise"
                    THEN {[outcome |-> loaded, cache |-> cch, summarizer |-> summ]}
                    ELSE {[outcome |-> g.outcome, cache |-> g.cache,
                           summarizer |-> loaded.value] :
                            g \in {Generate(query, vs, use_cache, cch, generation, written) :
                                     generation \in Generations, written \in BOOLEAN}} :
                    loaded \in LoadSummarizer(summ)}

----------------------------------------------------------------------------
(* backend/search_keyword.py: search_by_reference;  backend/explain.py *)

\* a lookup that compares the book name as it was typed
ReferenceMatchesCaseSensitive(v, book, chapter, verse) ==
    /\ v.book = book
    /\ v.chapter = chapter
    /\ (verse.set => v.verse = verse.value)

\* the condition of the two list comprehensions of search_by_reference; verse is
\* None or Some(number)
ReferenceMatches(v, book, chapter, verse) ==
    /\ lower(v.book) = lower(book)
    /\ v.chapter = chapter
    /\ (verse.set => v.verse = verse.value)

\* search_by_reference(verses, book, chapter, verse): the list comprehension
\* over the store, which hands out the stored verses themselves
RECURSIVE search_by_reference(_, _, _, _)
search_by_reference(vs, book, chapter, verse) ==
    IF vs = <<>> THEN <<>>
    ELSE LET rest == search_by_reference(Tail(vs), book, chapter, verse)
         IN  IF ReferenceMatches(Head(vs), book, chapter, verse)
             THEN <<Head(vs)>> \o rest
             ELSE rest

\* The explanation text is "\n".join(explanation_parts); it is kept as the
\* sequence of its parts, each part a record of what its f-string prints.

\* explanation_parts.append("")
BlankPart == [kind |-> "blank"]

\* verse.get("relevance_score", 0)
ScoreOf(verse) == IF "relevance_score" \in DOMAIN verse THEN verse.relevance_score ELSE 0

\* the elements of a set of strings in ascending order: sorted(books)
RECURSIVE SortedSet(_)
SortedSet(S) ==
    IF S = {} THEN <<>>
    ELSE LET least == CHOOSE x \in S : \A y \in S : StrLessEq(x, y)
         IN  <<least>> \o SortedSet(S \ {least})

\* verses[:max_verses]
TopVerses(vs, max_verses) == SliceTo(vs, max_verses)

\* the entries of explain_results for top_verses[i..]: f'{i}. **{ref}** (score:
\* {score})\n   "{text}"', each followed by an empty part
RECURSIVE KeywordEntries(_, _)
KeywordEntries(top_verses, i) ==
    IF i > Len(top_verses) THEN <<>>
    ELSE <<[kind |-> "entry", rank |-> i, reference |-> top_verses[i].reference,
            score |-> ScoreOf(top_verses[i]), text |-> top_verses[i].text],
           BlankPart>>
         \o KeywordEntries(top_verses, i + 1)

\* the summary insight of explain_results
BooksSummary(top_verses) ==
    LET books == {top_verses[i].book : i \in 1..Len(top_verses)}
    IN  IF Len(top_verses) > 1
        THEN IF Cardinality(books) = 1
             THEN <<[kind |-> "all_from", book |-> CHOOSE b \in books : TRUE]>>
             ELSE <<[kind |-> "span", count |-> Cardinality(books),
                     books |-> SortedSet(books)]>>
        ELSE <<>>

\* explain_results(verses, query, max_verses)
explain_results(vs, query, max_verses) ==
    IF vs = <<>> THEN <<[kind |-> "none", query |-> query]>>
    ELSE LET top_verses == TopVerses(vs, max_verses)
             intro == IF Len(vs) = 1
                      THEN [kind |-> "found_one", query |-> query]
                      ELSE [kind |-> "found", total |-> Len(vs),
                            shown |-> Len(top_verses), query |-> query]
         IN  <<intro, BlankPart>> \o KeywordEntries(top_verses, 1)
                 \o BooksSummary(top_verses)

\* the stop words of _extract_common_themes
StopWords ==
    { <<"t", "h", "e">>, <<"a", "n", "d">>, <<"o", "f">>, <<"t", "o">>, <<"a">>,
      <<"i", "n">>, <<"t", "h", "a", "t">>, <<"i", "s">>, <<"w", "a", "s">>,
      <<"f", "o", "r">>, <<"w", "i", "t", "h">>, <<"a", "s">>, <<"h", "i", "s">>,
      <<"h", "e">>, <<"b", "e">>, <<"n", "o", "t">>, <<"b", "y">>, <<"b", "u", "t">>,
      <<"f", "r", "o", "m">>, <<"t", "h", "e", "y">>, <<"w", "h", "i", "c", "h">>,
      <<"t", "h", "i", "s">>, <<"o", "r">>, <<"a", "n">>, <<"h", "a", "d">>,
      <<"o", "n">>, <<"a", "r", "e">>, <<"w", "e", "r", "e">>,
      <<"t", "h", "e", "i", "r">>, <<"h", "a", "v", "e">>, <<"y", "o", "u">>,
      <<"s", "h", "a", "l", "l">>, <<"i", "t">>, <<"a", "t">>, <<"u", "n", "t", "o">>,
      <<"t", "h", "y">>, <<"t", "h", "e", "e">>, <<"h", "i", "m">>,
      <<"s", "a", "i", "d">>, <<"a", "l", "l">>, <<"w", "i", "l", "l">>,
      <<"t", "h", "e", "m">>, <<"t", "h", "e", "r", "e">>, <<"w", "h", "e", "n">>,
      <<"s", "o">>, <<"w", "h", "a", "t">> }

\* len(w) >= 4
MinThemeLength == 4

\* min_frequency: int = 2
MinFrequency == 2

\* common[:10]
ThemesKept == 10

\* common_words[:5]
ThemesShown == 5

\* re.findall(r'\w+', s.lower())
Words(s) == findall_w(lower(s), <<>>, <<>>)

\* the significant words of the texts of verses[i..], in order: the filtered
\* lists that word_counts.update receives one after the other
RECURSIVE SignificantWords(_, _, _)
SignificantWords(vs, i, stop_words) ==
    IF i > Len(vs) THEN <<>>
    ELSE SelectSeq(Words(vs[i].text),
                   LAMBDA w : Len(w) >= MinThemeLength /\ w \notin stop_words)
         \o SignificantWords(vs, i + 1, stop_words)

\* the keys of a Counter fed with ws, in insertion order
RECURSIVE CounterKeys(_)
CounterKeys(ws) ==
    IF ws = <<>> THEN <<>>
    ELSE LET front == CounterKeys(SubSeq(ws, 1, Len(ws) - 1))
             w == ws[Len(ws)]
         IN  IF \E i \in 1..Len(front) : front[i] = w THEN front ELSE Append(front, w)

\* word_counts[w]
CountOf(ws, w) == Cardinality({i \in 1..Len(ws) : ws[i] = w})

\* a ranking that puts a word in front of the words that are as frequent
MostCommonPositionUnstable(ws, front, w) ==
    Cardinality({i \in 1..Len(front) : CountOf(ws, front[i]) > CountOf(ws, w)})

\* where the stable descending sort of most_common puts w among the already
\* sorted front: behind every word that is at least as frequent
MostCommonPosition(ws, front, w) ==
    Cardinality({i \in 1..Len(front) : CountOf(ws, front[i]) >= CountOf(ws, w)})

\* word_counts.most_common(): the keys by descending count, equal counts in
\* insertion order
RECURSIVE most_common(_, _)
most_common(ws, keys) ==
    IF keys = <<>> THEN <<>>
    ELSE LET front == most_common(ws, SubSeq(keys, 1, Len(keys) - 1))
             w == keys[Len(keys)]
             k == MostCommonPosition(ws, front, w)
         IN  SubSeq(front, 1, k) \o <<w>> \o SubSeq(front, k + 1, Len(front))

\* _extract_common_themes(verses, query)
_extract_common_themes(vs, query) ==
    LET stop_words == StopWords \cup {Words(query)[i] : i \in 1..Len(Words(query))}
        ws == SignificantWords(vs, 1, stop_words)
        common == SelectSeq(most_common(ws, CounterKeys(ws)),
                            LAMBDA w : CountOf(ws, w) >= MinFrequency)
    IN  SubSeq(common, 1, Min(ThemesKept, Len(common)))

\* common_words[:5]
ShownThemes(common_words) == SubSeq(common_words, 1, Min(ThemesShown, Len(common_words)))

\* the qualitative label of a similarity, in units of 1/100000
RelevanceLabel(similarity) ==
    IF similarity > 70000 THEN "highly relevant"
    ELSE IF similarity > 50000 THEN "very relevant"
    ELSE IF similarity > 30000 THEN "relevant"
    ELSE "somewhat relevant"

\* the entries of explain_semantic_results for top_verses[i..], the similarity
\* printed with 3 decimals ({similarity:.3f}, in thousandths)
RECURSIVE SemanticEntries(_, _)
SemanticEntries(top_verses, i) ==
    IF i > Len(top_verses) THEN <<>>
    ELSE <<[kind |-> "entry", rank |-> i, reference |-> top_verses[i].reference,
            relevance |-> RelevanceLabel(ScoreOf(top_verses[i])),
            similarity |-> RoundHalfEven(ScoreOf(top_verses[i]), 100),
            text |-> top_verses[i].text],
           BlankPart>>
         \o SemanticEntries(top_verses, i + 1)

\* the thematic summary of explain_semantic_results
ThemesSummary(top_verses, query) ==
    IF Len(top_verses) >= 3
    THEN LET common_words == _extract_common_themes(top_verses, query)
         IN  IF common_words # <<>>
             THEN <<[kind |-> "themes", words |-> ShownThemes(common_words)]>>
             ELSE <<>>
    ELSE <<>>

\* explain_semantic_results(verses, query, max_verses)
explain_semantic_results(vs, query, max_verses) ==
    IF vs = <<>> THEN <<[kind |-> "none_similar", query |-> query]>>
    ELSE LET top_verses == TopVerses(vs, max_verses)
         IN  <<[kind |-> "found_similar", total |-> Len(vs), shown |-> Len(top_verses),
                query |-> query],
               BlankPart>>
             \o SemanticEntries(top_verses, 1)
             \o ThemesSummary(top_verses, query)

----------------------------------------------------------------------------
(* The request handlers of backend/app_refactored.py on a running service *)

\* a call that keeps in the list only what it returns
StoreAfterConsumed(vs, results) == results

\* a ranker that scores the stored dicts themselves: verse["relevance_score"] =
\* score, results.append(verse)
StoreAfterInPlace(vs, results) ==
    [i \in 1..Len(vs) |->
        IF \E k \in 1..Len(results) : results[k].ref = vs[i].ref
        THEN results[CHOOSE k \in 1..Len(results) : results[k].ref = vs[i].ref]
        ELSE vs[i]]

\* the store after a call that built the result list results from it: every
\* result is a dict of its own ({**verse, ...}), a reference lookup hands out the
\* stored dicts and nobody writes to them, so the list of verses and every
\* record in it are what they were
StoreAfter(vs, results) == vs

\* a handler that also writes a log entry for the requests it rejects
HandlerResponseLogged(op, query, args, status, body, detail, log) ==
    [op |-> op, query |-> query, args |-> args, status |-> status, body |-> body,
     detail |-> detail, log |-> IF status = 400 THEN "log_error" ELSE log]

\* the answer of a handler: the HTTP status, the body of a 200, the detail of an
\* error, and the structured log entry written
HandlerResponse(op, query, args, status, body, detail, log) ==
    [op |-> op, query |-> query, args |-> args, status |-> status, body |-> body,
     detail |-> detail, log |-> log]

\* POST /search
search(query, max_results) ==
    /\ call = Idle
    /\ LET args == [max_results |-> max_results]
           outcome == search_keyword(verses, query, max_results)
       IN  IF IsBlank(query)
           THEN /\ call' = HandlerResponse("/search", query, args, 400, <<>>,
                                           "Query cannot be empty", "none")
                /\ UNCHANGED verses
           ELSE IF outcome.kind = "return"
           THEN /\ call' = HandlerResponse("/search", query, args, 200, outcome.value,
                                           "", "log_search")
                /\ verses' = StoreAfter(verses, outcome.value)
           ELSE /\ call' = HandlerResponse("/search", query, args, 500, <<>>,
                                           outcome.exc, "log_error")
                /\ verses' = StoreAfter(verses, <<>>)
    /\ UNCHANGED <<diskVars, lazyVars, otherVars>>

\* the body of a 200 of /explain
ExplainBody(query, semantic, results, explanation, max_verses) ==
    [query |-> query, search_type |-> IF semantic THEN "semantic" ELSE "keyword",
     total_results |-> Len(results), explanation |-> explanation,
     verses |-> SliceTo(results, max_verses)]

\* POST /explain
explain_search(query, max_results, max_verses, semantic) ==
    /\ call = Idle
    /\ LET args == [max_results |-> max_results, max_verses |-> max_verses,
                    semantic |-> semantic]
       IN  IF IsBlank(query)
           THEN /\ call' = HandlerResponse("/explain", query, args, 400, None,
                                           "Query cannot be empty", "none")
                /\ UNCHANGED <<verses, lazyVars>>
           ELSE IF semantic /\ ~index_exists
           THEN /\ call' = HandlerResponse("/explain", query, args, 503, None,
                                           "Semantic search not available", "log_error")
                /\ UNCHANGED <<verses, lazyVars>>
           ELSE IF semantic
           THEN \E r \in search_semantic(verses, query, max_results, None,
                                         Lazy(_model, _faiss_index, _verse_ids)) :
                    /\ IF r.outcome.kind = "return"
                       THEN /\ call' = HandlerResponse("/explain", query, args, 200,
                                           ExplainBody(query, semantic, r.outcome.value,
                                               explain_semantic_results(r.outcome.value,
                                                   query, max_verses),
                                               max_verses),
                                           "", "log_explain")
                            /\ verses' = StoreAfter(verses, r.outcome.value)
                       ELSE /\ call' = HandlerResponse("/explain", query, args, 500, None,
                                           r.outcome.exc, "log_error")
                            /\ verses' = StoreAfter(verses, <<>>)
                    /\ _model' = r.lazy.model
                    /\ _faiss_index' = r.lazy.index
                    /\ _verse_ids' = r.lazy.ids
           ELSE LET outcome == search_keyword(verses, query, max_results)
                IN  /\ IF outcome.kind = "return"
                       THEN /\ call' = HandlerResponse("/explain", query, args, 200,
                                           ExplainBody(query, semantic, outcome.value,
                                               explain_results(outcome.value, query,
                                                   max_verses),
                                               max_verses),
                                           "", "log_explain")
                            /\ verses' = StoreAfter(verses, outcome.value)
                       ELSE /\ call' = HandlerResponse("/explain", query, args, 500, None,
                                           outcome.exc, "log_error")
                            /\ verses' = StoreAfter(verses, <<>>)
                    /\ UNCHANGED lazyVars
    /\ UNCHANGED <<diskVars, otherVars>>

\* "No relevant verses found for this query."
NoRelevantText == <<"n">>

\* dict.get(key, default) on the dict generate_commentary returned
Get(result, key, default) == IF key \in DOMAIN result THEN result[key] ELSE default

\* the last successful generations after a call of generate_commentary with
\* the outcome outcome: a full commentary is noted under its cache key
NoteFull(last, query, vs, outcome) ==
    IF /\ outcome.kind = "return"
       /\ Get(outcome.value, "commentary_mode", "") = "full"
    THEN WriteFile(last, CacheKeyOf(query, vs), outcome.value.commentary)
    ELSE last

\* the body of a 200 of /commentary that has verses
CommentaryBody(query, results, commentary_result) ==
    [query |-> query,
     commentary |-> commentary_result.commentary,
     commentary_mode |-> Get(commentary_result, "commentary_mode", "full"),
     verses |-> SliceTo(results, CachedVerseIds),
     metadata |-> [verses_used |-> commentary_result.verses_used,
                   model_info |-> Get(commentary_result, "model_info", None),
                   total_results |-> Len(results)]]

\* POST /commentary
commentary(query, max_results, use_cache) ==
    /\ call = Idle
    /\ LET args == [max_results |-> max_results, use_cache |-> use_cache]
       IN  IF IsBlank(query)
           THEN /\ call' = HandlerResponse("/commentary", query, args, 400, None,
                                           "Query cannot be empty", "none")
                /\ UNCHANGED <<verses, lazyVars, commentaryVars>>
           ELSE IF ~index_exists
           THEN /\ call' = HandlerResponse("/commentary", query, args, 503, None,
                                           "Semantic search not available", "none")
                /\ UNCHANGED <<verses, lazyVars, commentaryVars>>
           ELSE \E r \in search_semantic(verses, query, max_results,
                                         Some(SEMANTIC_SEARCH_SIMILARITY_THRESHOLD),
                                         Lazy(_model, _faiss_index, _verse_ids)) :
                    /\ _model' = r.lazy.model
                    /\ _faiss_index' = r.lazy.index
                    /\ _verse_ids' = r.lazy.ids
                    /\ IF r.outcome.kind = "raise"
                       THEN /\ call' = HandlerResponse("/commentary", query, args, 500,
                                           None, r.outcome.exc, "log_error")
                            /\ verses' = StoreAfter(verses, <<>>)
                            /\ UNCHANGED commentaryVars
                       ELSE IF r.outcome.value = <<>>
                       THEN /\ call' = HandlerResponse("/commentary", query, args, 200,
                                           [query |-> query, commentary |-> NoRelevantText,
                                            verses |-> <<>>,
                                            metadata |-> [verses_used |-> 0]],
                                           "", "log_commentary")
                            /\ verses' = StoreAfter(verses, <<>>)
                            /\ UNCHANGED commentaryVars
                       ELSE \E g \in generate_commentary(query, r.outcome.value, use_cache,
                                                         cache, summarizer) :
                                /\ call' = IF g.outcome.kind = "return"
                                           THEN HandlerResponse("/commentary", query, args,
                                                    200,
                                                    CommentaryBody(query, r.outcome.value,
                                                                   g.outcome.value),
                                                    "", "log_commentary")
                                           ELSE HandlerResponse("/commentary", query, args,
                                                    500, None, g.outcome.exc, "log_error")
                                /\ verses' = StoreAfter(verses, r.outcome.value)
                                /\ cache' = g.cache
                                /\ summarizer' = g.summarizer
                                /\ lastFull' = NoteFull(lastFull, query, r.outcome.value,
                                                        g.outcome)
    /\ UNCHANGED <<diskVars, threadVars, memo>>

\* GET /chapter/{book}/{chapter}
get_chapter(book, chapter) ==
    /\ call = Idle
    /\ LET chapter_verses == search_by_reference(verses, book, chapter, None)
           args == [book |-> book, chapter |-> chapter]
       IN  /\ call' = IF chapter_verses = <<>>
                      THEN HandlerResponse("/chapter", <<>>, args, 404, <<>>,
                                           "Chapter not found", "none")
                      ELSE HandlerResponse("/chapter", <<>>, args, 200, chapter_verses,
                                           "", "log_chapter")
           /\ verses' = StoreAfter(verses, chapter_verses)
    /\ UNCHANGED <<diskVars, lazyVars, otherVars>>

\* a call of commentary_summarizer.generate_commentary on a ranked verse list:
\* the verses at the store positions ranking, as semantic results
GenerateCommentary(query, ranking, use_cache) ==
    /\ call = Idle
    /\ \A i \in 1..Len(ranking) : ranking[i] <= Len(verses)
    /\ LET vs == [i \in 1..Len(ranking) |-> WithScore(verses[ranking[i]], 50000)]
       IN  \E g \in generate_commentary(query, vs, use_cache, cache, summarizer) :
               /\ call' = [op |-> "generate_commentary", query |-> query, verses |-> vs,
                           use_cache |-> use_cache, outcome |-> g.outcome]
               /\ cache' = g.cache
               /\ summarizer' = g.summarizer
               /\ lastFull' = NoteFull(lastFull, query, vs, g.outcome)
    /\ UNCHANGED <<verses, diskVars, lazyVars, threadVars, memo>>

\* the rankings a caller can hand over: store positions without repetition
Rankings ==
    {q \in UNION {[1..n -> 1..MaxVerses] : n \in 0..MaxVerses} :
        \A i, j \in 1..Len(q) : i < j => q[i] # q[j]}

\* the queries handed to generate_commentary directly
CommentaryQueries == {<<"a">>}

\* the book names and chapter numbers asked of /chapter
Books == {<<"A", "b">>, <<"a", "b">>, <<"b">>}
Chapters == 1..2

\* the service after startup: the store is loaded, the index artifacts are the
\* ones built from the corpus or are missing, nothing is lazily loaded yet
InitService ==
    /\ verses = LoadVerses([i \in 1..MaxVerses |-> CorpusLine(i)])
    /\ \/ /\ indexFile = IndexFileOf(MaxVerses)
          /\ mappingFile = MappingFileOf(Range(MaxVerses))
          /\ embeddingsFile = EmbeddingsFileOf(MaxVerses)
       \/ /\ indexFile = NoFile
          /\ mappingFile = NoFile
          /\ embeddingsFile = NoFile
    /\ call = Idle
    /\ build = NoBuild
    /\ _model = None
    /\ _faiss_index = None
    /\ _verse_ids = None
    /\ OtherInit

NextService ==
    \/ \E query \in SystemQueries, max_results \in MaxResultsValues :
           search(query, max_results)
    \/ \E query \in SystemQueries, max_results \in MaxResultsValues,
          min_similarity \in {None} :
           semantic_search(query, max_results, min_similarity)
    \/ \E query \in SystemQueries, max_results \in MaxResultsValues,
          max_verses \in 1..MaxResults, semantic \in BOOLEAN :
           explain_search(query, max_results, max_verses, semantic)
    \/ \E query \in SystemQueries, max_results \in MaxResultsValues,
          use_cache \in BOOLEAN :
           commentary(query, max_results, use_cache)
    \/ \E book \in Books, chapter \in Chapters : get_chapter(book, chapter)
    \/ \E query \in CommentaryQueries, ranking \in Rankings, use_cache \in BOOLEAN :
           GenerateCommentary(query, ranking, use_cache)
    \/ Complete

SpecService == InitService /\ [][NextService]_vars

----------------------------------------------------------------------------
(* Repeated calls of search_keyword and search_by_reference on one store *)

MaxStore == 4

\* how many later calls a remembered call counts
MaxLater == 2

StoreStores == {LoadVerses([i \in 1..n |-> CorpusLine(i)]) : n \in 0..MaxStore}

StoreQueries == {<<"a">>, <<"b">>, <<"a", " ", "b">>, <<" ">>, <<".">>}

ReferenceBooks == {<<"A", "b">>, <<"a", "b">>, <<"b">>, <<"a">>}

ReferenceVerses == {None} \cup {Some(n) : n \in 1..2}

\* a call of search_keyword on the store; with note the call is remembered, to
\* be compared with a later one, and every call after it is counted
SearchKeywordAgain(query, max_results, note) ==
    /\ call = Idle
    /\ LET outcome == search_keyword(verses, query, max_results)
           this == [op |-> "search_keyword", query |-> query,
                    max_results |-> max_results, outcome |-> outcome]
       IN  /\ call' = this
           /\ memo' = IF note THEN [call |-> this, later |-> 0]
                      ELSE IF memo = Idle THEN memo
                      ELSE [memo EXCEPT !.later = Min(@ + 1, MaxLater)]
           /\ verses' = StoreAfter(verses, IF outcome.kind = "return"
                                           THEN outcome.value ELSE <<>>)
    /\ UNCHANGED <<diskVars, lazyVars, commentaryVars, threadVars>>

\* a call of search_by_reference on the store
SearchByReference(book, chapter, verse) ==
    /\ call = Idle
    /\ LET found == search_by_reference(verses, book, chapter, verse)
       IN  /\ call' = [op |-> "search_by_reference", book |-> book, chapter |-> chapter,
                       verse |-> verse, outcome |-> Return(found)]
           /\ verses' = StoreAfter(verses, found)
    /\ memo' = IF memo = Idle THEN memo ELSE [memo EXCEPT !.later = Min(@ + 1, MaxLater)]
    /\ UNCHANGED <<diskVars, lazyVars, commentaryVars, threadVars>>

\* the caller takes the outcome; the next call can start
CompleteStore ==
    /\ call # Idle
    /\ call' = Idle
    /\ UNCHANGED <<verses, diskVars, lazyVars, otherVars>>

InitStore ==
    /\ verses \in StoreStores
    /\ call = Idle
    /\ indexFile = NoFile
    /\ mappingFile = NoFile
    /\ embeddingsFile = NoFile
    /\ build = NoBuild
    /\ _model = None
    /\ _faiss_index = None
    /\ _verse_ids = None
    /\ OtherInit

NextStore ==
    \/ \E query \in StoreQueries, max_results \in MaxResultsValues, note \in BOOLEAN :
           SearchKeywordAgain(query, max_results, note)
    \/ \E book \in ReferenceBooks, chapter \in Chapters, verse \in ReferenceVerses :
           SearchByReference(book, chapter, verse)
    \/ CompleteStore

SpecStore == InitStore /\ [][NextStore]_vars

----------------------------------------------------------------------------
(* The cache entry generate_commentary uses for a query and a ranked list *)

\* the store: two verses more than a cache key takes references from
KeyStore == LoadVerses([i \in 1..(CachedVerseIds + 2) |-> CorpusLine(i)])

\* the first n store positions, ascending and descending
Ascending(n) == [i \in 1..n |-> i]
Descending(n) == [i \in 1..n |-> n + 1 - i]

\* the rankings handed over: short ones, and long ones that agree on their
\* first CachedVerseIds verses, in the same or in another order
KeyRankings ==
    { <<1>>, <<2>>, <<1, 2>>, <<2, 1>>,
      Ascending(CachedVerseIds),
      Ascending(CachedVerseIds) \o <<CachedVerseIds + 1>>,
      Ascending(CachedVerseIds) \o <<CachedVerseIds + 2>>,
      Descending(CachedVerseIds) \o <<CachedVerseIds + 1>>,
      Tail(Ascending(CachedVerseIds + 1)) }

\* the queries: plain ones, and one that ends with the separator of the key
\* and the reference of the first verse of the store
KeyQueries == {<<"a">>, <<"b">>, <<"a", "|">> \o KeyStore[1].reference}

\* generate_commentary up to the cache key of a non-empty ranked list: the
\* references of verses[:10] and the name of the cache file; with note the call
\* is remembered, to be compared with a later one
generate_commentary_key(query, ranking, note) ==
    /\ call = Idle
    /\ LET vs == [i \in 1..Len(ranking) |-> WithScore(verses[ranking[i]], 50000)]
           this == [op |-> "cache_key", query |-> query, verses |-> vs,
                    cache_key |-> CacheKeyOf(query, vs)]
       IN  /\ call' = this
           /\ memo' = IF note THEN [call |-> this, later |-> 0]
                      ELSE IF memo = Idle THEN memo
                      ELSE [memo EXCEPT !.later = Min(@ + 1, MaxLater)]
    /\ UNCHANGED <<verses, diskVars, lazyVars, commentaryVars, threadVars>>

InitKey ==
    /\ verses = KeyStore
    /\ call = Idle
    /\ indexFile = NoFile
    /\ mappingFile = NoFile
    /\ embeddingsFile = NoFile
    /\ build = NoBuild
    /\ _model = None
    /\ _faiss_index = None
    /\ _verse_ids = None
    /\ OtherInit

NextKey ==
    \/ \E query \in KeyQueries, ranking \in KeyRankings, note \in BOOLEAN :
           generate_commentary_key(query, ranking, note)
    \/ Complete

SpecKey == InitKey /\ [][NextKey]_vars

----------------------------------------------------------------------------
(* Explanations of ranked lists: explain_results and explain_semantic_results
   applied to the rankings of a small store *)

\* "love lord hope fear king land"
ThemeText1 ==
    <<"l", "o", "v", "e", " ", "l", "o", "r", "d", " ", "h", "o", "p", "e", " ", "f",
      "e", "a", "r", " ", "k", "i", "n", "g", " ", "l", "a", "n", "d">>

\* "land king fear hope lord love unto god"
ThemeText2 ==
    <<"l", "a", "n", "d", " ", "k", "i", "n", "g", " ", "f", "e", "a", "r", " ", "h",
      "o", "p", "e", " ", "l", "o", "r", "d", " ", "l", "o", "v", "e", " ", "u", "n",
      "t", "o", " ", "g", "o", "d">>

\* "lord lord unto unto pray pray"
ThemeText3 ==
    <<"l", "o", "r", "d", " ", "l", "o", "r", "d", " ", "u", "n", "t", "o", " ", "u",
      "n", "t", "o", " ", "p", "r", "a", "y", " ", "p", "r", "a", "y">>

\* "Aaaa aaaa ab"
ThemeText4 ==
    <<"A", "a", "a", "a", " ", "a", "a", "a", "a", " ", "a", "b">>

ExplainStore == LoadVerses(<<ThemeText1, ThemeText2, ThemeText3, ThemeText4>>)

\* the similarity of the result at each rank: one per qualitative label
ExplainScores == <<90000, 65000, 40000, 15000>>

\* the ranked lists: store positions without repetition
ExplainRankings ==
    {q \in UNION {[1..n -> 1..Len(ExplainStore)] : n \in 0..Len(ExplainStore)} :
        \A i, j \in 1..Len(q) : i < j => q[i] # q[j]}

ExplainQueries == {<<"p", "r", "a", "y">>, <<"l", "o", "r", "d", " ", "g", "o", "d">>}

ExplainMaxVerses == (0 - 1)..Len(ExplainStore)

\* a call of explain_results or explain_semantic_results on a ranked list
Explain(ranking, query, max_verses, semantic) ==
    /\ call = Idle
    /\ LET vs == [k \in 1..Len(ranking) |->
                     WithScore(verses[ranking[k]], ExplainScores[k])]
       IN  call' = [op |-> "explain", semantic |-> semantic, query |-> query,
                    verses |-> vs, max_verses |-> max_verses,
                    explanation |-> IF semantic
                                    THEN explain_semantic_results(vs, query, max_verses)
                                    ELSE explain_results(vs, query, max_verses)]
    /\ UNCHANGED <<verses, diskVars, lazyVars, otherVars>>

InitExplain ==
    /\ verses = ExplainStore
    /\ call = Idle
    /\ indexFile = NoFile
    /\ mappingFile = NoFile
    /\ embeddingsFile = NoFile
    /\ build = NoBuild
    /\ _model = None
    /\ _faiss_index = None
    /\ _verse_ids = None
    /\ OtherInit

NextExplain ==
    \/ \E ranking \in ExplainRankings, query \in ExplainQueries,
          max_verses \in ExplainMaxVerses, semantic \in BOOLEAN :
           Explain(ranking, query, max_verses, semantic)
    \/ Complete

SpecExplain == InitExplain /\ [][NextExplain]_vars

----------------------------------------------------------------------------
(* Concurrent first calls of search_semantic in one process.  The functions   *)
(* take no lock: a step is one uninterrupted stretch of a call, and the       *)
(* steps of different calls interleave freely.                                *)

NumThreads == 2

Threads == 1..NumThreads

\* a call of search_semantic(verses, "a", MaxResults) that passed the blank-query
\* guard and is about to call _load_model
ThreadStart == [pc |-> "load_model", index |-> None, ids |-> None, outcome |-> None]

\* _load_model: the test `_model is None`
_load_model_check(t) ==
    /\ threads[t].pc = "load_model"
    /\ threads' = [threads EXCEPT ![t].pc =
                       IF _model.set THEN "load_index" ELSE "model_loading"]
    /\ UNCHANGED <<verses, call, diskVars, lazyVars, commentaryVars, loads, memo>>

\* _load_model: _model = SentenceTransformer(config.EMBEDDING_MODEL)
_load_model_construct(t) ==
    /\ threads[t].pc = "model_loading"
    /\ _model' = Loaded
    /\ loads' = [loads EXCEPT !.model = @ + 1]
    /\ threads' = [threads EXCEPT ![t].pc = "load_index"]
    /\ UNCHANGED <<verses, call, diskVars, _faiss_index, _verse_ids, commentaryVars, memo>>

\* _load_index: the test `_faiss_index is None`; when it fails the call returns
\* the two globals as they are, when it holds the files are looked up
_load_index_check(t) ==
    /\ threads[t].pc = "load_index"
    /\ threads' = [threads EXCEPT ![t] =
           IF _faiss_index.set
           THEN [pc |-> "rank", index |-> _faiss_index, ids |-> _verse_ids,
                 outcome |-> None]
           ELSE IF ~indexFile.exists \/ ~mappingFile.exists
           THEN [pc |-> "done", index |-> None, ids |-> None,
                 outcome |-> Raise("FileNotFoundError")]
           ELSE [@ EXCEPT !.pc = "index_reading"]]
    /\ UNCHANGED <<verses, call, diskVars, lazyVars, commentaryVars, loads, memo>>

\* _load_index: _faiss_index = faiss.read_index(...)
_load_index_read(t) ==
    /\ threads[t].pc = "index_reading"
    /\ _faiss_index' = IndexOf(indexFile.ntotal)
    /\ loads' = [loads EXCEPT !.index = @ + 1]
    /\ threads' = [threads EXCEPT ![t].pc = "mapping_reading"]
    /\ UNCHANGED <<verses, call, diskVars, _model, _verse_ids, commentaryVars, memo>>

\* _load_index: _verse_ids = json.load(f), and the return of the two globals
_load_index_mapping(t) ==
    /\ threads[t].pc = "mapping_reading"
    /\ _verse_ids' = IdsOf(mappingFile.ids)
    /\ threads' = [threads EXCEPT ![t] =
           [pc |-> "rank", index |-> _faiss_index, ids |-> IdsOf(mappingFile.ids),
            outcome |-> None]]
    /\ UNCHANGED <<verses, call, diskVars, _model, _faiss_index, commentaryVars, loads, memo>>

\* search_semantic from index.search to its return, on the index and the
\* mapping that _load_index handed to this call
search_semantic_rank(t) ==
    /\ threads[t].pc = "rank"
    /\ \E r \in RankLoaded(verses, MaxResults, None, _model,
                            [outcome |-> Return(<<>>), index |-> threads[t].index,
                             ids |-> threads[t].ids]) :
           threads' = [threads EXCEPT ![t].pc = "done", ![t].outcome = r.outcome]
    /\ UNCHANGED <<verses, call, diskVars, lazyVars, commentaryVars, loads, memo>>

\* a fresh process whose store and index artifacts were built from the same
\* corpus, with NumThreads first queries arriving together
InitLazy ==
    /\ \E n \in 1..MaxVerses :
           /\ verses = LoadVerses([i \in 1..n |-> CorpusLine(i)])
           /\ indexFile = IndexFileOf(n)
           /\ mappingFile = MappingFileOf(Range(n))
           /\ embeddingsFile = EmbeddingsFileOf(n)
    /\ call = Idle
    /\ build = NoBuild
    /\ _model = None
    /\ _faiss_index = None
    /\ _verse_ids = None
    /\ summarizer = None
    /\ cache = <<>>
    /\ threads = [t \in Threads |-> ThreadStart]
    /\ loads = [model |-> 0, index |-> 0]
    /\ lastFull = <<>>
    /\ memo = Idle

NextLazy ==
    \E t \in Threads :
        \/ _load_model_check(t)
        \/ _load_model_construct(t)
        \/ _load_index_check(t)
        \/ _load_index_read(t)
        \/ _load_index_mapping(t)
        \/ search_semantic_rank(t)

SpecLazy == InitLazy /\ [][NextLazy]_vars

----------------------------------------------------------------------------
(* Concurrent calls of generate_commentary for one cache key.  The cache    *)
(* file is opened, written and read without a lock or a rename: a step is   *)
(* one file operation, and the steps of different calls interleave freely.  *)

\* the ranked verse list every one of the concurrent calls is made with: the
\* whole store, as semantic results
RankedStore == [i \in 1..Len(verses) |-> WithScore(verses[i], 50000)]

\* the cache key of the concurrent calls
SharedKey == CacheKeyOf(<<"a">>, RankedStore)

\* a call of generate_commentary("a", RankedStore, use_cache=True) about to
\* look into the cache
WriterStart == [pc |-> "read", commentary |-> <<>>, outcome |-> None]

\* a write of data at offset 0 of a file that holds old: what lies beyond the
\* written bytes stays
Overlay(old, data) == data \o SubSeq(old, Len(data) + 1, Len(old))

\* generate_commentary: _load_cache, and the return on a hit
generate_commentary_read(t) ==
    /\ threads[t].pc = "read"
    /\ LET cached == _load_cache(SharedKey, cache)
       IN  threads' = [threads EXCEPT ![t] =
               IF cached.set /\ cached.value # <<>>
               THEN [pc |-> "done", commentary |-> <<>>,
                     outcome |-> Return([commentary |-> cached.value,
                                         verses_used |-> Min(Len(RankedStore), CachedVerseIds),
                                         model_info |-> [source |-> "cache"]])]
               ELSE [@ EXCEPT !.pc = "generate"]]
    /\ UNCHANGED <<verses, call, diskVars, lazyVars, summarizer, cache, lastFull, loads, memo>>

\* generate_commentary: generation and validation, and the return of the
\* fallback when they fail; the cache write of a full commentary is the two
\* steps that follow
generate_commentary_generate(t) ==
    /\ threads[t].pc = "generate"
    /\ \E generation \in Generations :
           LET g == Generate(<<"a">>, RankedStore, FALSE, cache, generation, FALSE)
           IN  threads' = [threads EXCEPT ![t] =
                   IF g.outcome.value.commentary_mode = "full"
                   THEN [pc |-> "open", commentary |-> g.outcome.value.commentary,
                         outcome |-> g.outcome]
                   ELSE [pc |-> "done", commentary |-> <<>>, outcome |-> g.outcome]]
    /\ UNCHANGED <<verses, call, diskVars, lazyVars, summarizer, cache, lastFull, loads, memo>>

\* _save_cache: open(cache_file, 'w') creates the file or cuts it to length 0
_save_cache_open(t) ==
    /\ threads[t].pc = "open"
    /\ cache' = WriteFile(cache, SharedKey, <<>>)
    /\ threads' = [threads EXCEPT ![t].pc = "write"]
    /\ UNCHANGED <<verses, call, diskVars, lazyVars, summarizer, lastFull, loads, memo>>

\* _save_cache: the entry reaches the file when the with block closes it, and
\* generate_commentary returns the full commentary
_save_cache_write(t) ==
    /\ threads[t].pc = "write"
    /\ cache' = WriteFile(cache, SharedKey,
                          Overlay(cache[SharedKey], json_dump(threads[t].commentary)))
    /\ threads' = [threads EXCEPT ![t].pc = "done"]
    /\ UNCHANGED <<verses, call, diskVars, lazyVars, summarizer, lastFull, loads, memo>>

\* a service with the commentary model loaded and an empty cache directory, and
\* NumThreads calls for the same query and verses arriving together
InitCache ==
    /\ \E n \in 1..MaxVerses :
           /\ verses = LoadVerses([i \in 1..n |-> CorpusLine(i)])
           /\ indexFile = IndexFileOf(n)
           /\ mappingFile = MappingFileOf(Range(n))
           /\ embeddingsFile = EmbeddingsFileOf(n)
           /\ _faiss_index = IndexOf(n)
           /\ _verse_ids = IdsOf(Range(n))
    /\ call = Idle
    /\ build = NoBuild
    /\ _model = Loaded
    /\ summarizer = Loaded
    /\ cache = <<>>
    /\ threads = [t \in Threads |-> WriterStart]
    /\ loads = [model |-> 0, index |-> 0]
    /\ lastFull = <<>>
    /\ memo = Idle

NextCache ==
    \E t \in Threads :
        \/ generate_commentary_read(t)
        \/ generate_commentary_generate(t)
        \/ _save_cache_open(t)
        \/ _save_cache_write(t)

SpecCache == InitCache /\ [][NextCache]_vars

----------------------------------------------------------------------------
(* Claims about search_keyword, checked under SpecKeyword *)

KeywordCall == call.op = "search_keyword"

KeywordReturned == KeywordCall /\ call.outcome.kind = "return"

OnlyWhitespace(query) == \A i \in 1..Len(query) : IsSpace(query[i])

\* the store positions whose lower-cased text contains the lower-cased query
PhraseVerses(query) ==
    {i \in 1..Len(verses) : Contains(lower(verses[i].text), lower(query))}

\* C1: every verse whose text contains the query (case-insensitively) is in the
\* result of search_keyword, scored with the exact-phrase bonus of 10.0 plus 2.0
\* per occurrence of the phrase.  Stated for the queries that are not blank and
\* for max_results large enough to truncate nothing, where only the scoring can
\* make it fail.  The bonus shows as a lower bound of the score in hundredths:
\* every other summand but the length penalty text_length / 500 is >= 0.
C1_ExactMatchIncluded ==
    (KeywordCall /\ ~OnlyWhitespace(call.query) /\ call.max_results >= Len(verses))
        => \A i \in PhraseVerses(call.query) :
               /\ call.outcome.kind = "return"
               /\ \E k \in 1..Len(call.outcome.value) :
                      /\ call.outcome.value[k].ref = i
                      /\ call.outcome.value[k].relevance_score
                           >= 1000
                              + 200 * count(lower(verses[i].text), strip(lower(call.query)))
                              - (Len(verses[i].text) \div 5) - 1

\* C2: the list search_keyword returns is sorted non-increasing by relevance_score,
\* and entries with equal relevance_score keep the order of the verse store.
C2_SortedStable ==
    KeywordReturned =>
        \A i, j \in 1..Len(call.outcome.value) :
            i < j =>
                /\ call.outcome.value[i].relevance_score >= call.outcome.value[j].relevance_score
                /\ (call.outcome.value[i].relevance_score = call.outcome.value[j].relevance_score
                        => call.outcome.value[i].ref < call.outcome.value[j].ref)

\* a returned list in which two verses with different texts tie on the score
C2_Witness ==
    /\ KeywordReturned
    /\ \E i, j \in 1..Len(call.outcome.value) :
           /\ i < j
           /\ call.outcome.value[i].relevance_score = call.outcome.value[j].relevance_score
           /\ call.outcome.value[i].text # call.outcome.value[j].text

\* C3: the result has at most max(max_results, 0) entries, it is the first
\* max_results entries of the sorted match list, and it is empty for every
\* max_results <= 0.
C3_Truncation ==
    KeywordReturned =>
        /\ Len(call.outcome.value) <= Max(call.max_results, 0)
        /\ (call.max_results <= 0 => call.outcome.value = <<>>)
        /\ (call.max_results > 0 /\ ~OnlyWhitespace(call.query) =>
               LET matches == KeywordMatches(verses, call.query).value
               IN  call.outcome.value
                     = SubSeq(matches, 1, Min(call.max_results, Len(matches))))

\* C4: an empty or whitespace-only query returns the empty list and raises nothing,
\* whatever the store and max_results.
C4_BlankQueryEmpty ==
    (KeywordCall /\ OnlyWhitespace(call.query)) => call.outcome = Return(<<>>)

\* a whitespace-only query of positive length on a store that has a verse with a
\* space in it (the stripped query is a substring of that text)
C4_Witness ==
    /\ KeywordCall
    /\ Len(call.query) > 0
    /\ OnlyWhitespace(call.query)
    /\ \E i \in 1..Len(verses) : Contains(verses[i].text, call.query)
    /\ call.outcome = Return(<<>>)

----------------------------------------------------------------------------
(* Claims about search_semantic and the index artifacts, checked under Spec *)

SemanticCall == call.op = "search_semantic"

SemanticReturned == SemanticCall /\ call.outcome.kind = "return"

\* C5: for an empty or whitespace-only query search_semantic returns the empty
\* list and leaves _model, _faiss_index and _verse_ids as they were, also when the
\* index artifacts are not on disk.
C5_BlankQueryLoadsNothing ==
    [][(call.op = "idle" /\ call'.op = "search_semantic" /\ OnlyWhitespace(call'.query))
          => (call'.outcome = Return(<<>>) /\ UNCHANGED lazyVars)]_vars

\* a whitespace-only query answered with nothing loaded and no artifact on disk
C5_Witness ==
    /\ SemanticCall
    /\ Len(call.query) > 0
    /\ OnlyWhitespace(call.query)
    /\ call.outcome = Return(<<>>)
    /\ ~indexFile.exists /\ ~mappingFile.exists
    /\ ~_model.set /\ ~_faiss_index.set /\ ~_verse_ids.set

\* C6 as stated: no returned relevance_score (the similarity rounded to 4
\* decimals) is below the min_similarity in force for the call.
C6_ScoreAtLeastMinSimilarity ==
    SemanticReturned =>
        \A k \in 1..Len(call.outcome.value) :
            call.outcome.value[k].relevance_score >= Threshold(call.min_similarity)

\* C6 as amended: no returned relevance_score is below the min_similarity in force
\* rounded to 4 decimals (which is min_similarity itself when it has at most 4
\* decimals, as the default 0.3 has).
C6_ScoreAtLeastRoundedMinSimilarity ==
    SemanticReturned =>
        \A k \in 1..Len(call.outcome.value) :
            call.outcome.value[k].relevance_score
                >= Round4(Threshold(call.min_similarity))

\* a result whose similarity passed a min_similarity with more than 4 decimals
\* (0.30004) and is reported as that threshold rounded (0.3)
C6_Witness ==
    /\ SemanticReturned
    /\ call.min_similarity.set
    /\ \E k \in 1..Len(call.outcome.value) :
           /\ call.outcome.value[k].relevance_score < call.min_similarity.value
           /\ call.outcome.value[k].relevance_score = Round4(call.min_similarity.value)

\* C7 as stated: the number of returned results is at most max_results, for every
\* integer max_results.
C7_AtMostMaxResults ==
    SemanticReturned => Len(call.outcome.value) <= call.max_results

\* C7 as amended: the number of returned results is at most max(max_results, 0).
C7_AtMostMaxResultsOrNone ==
    SemanticReturned => Len(call.outcome.value) <= Max(call.max_results, 0)

\* the early stop has acted: max_results results were returned although the index
\* holds more vectors than that
C7_Witness ==
    /\ SemanticReturned
    /\ call.max_results > 0
    /\ Len(call.outcome.value) = call.max_results
    /\ _faiss_index.set
    /\ _faiss_index.ntotal > call.max_results

\* C8: a non-blank semantic query issued while the embedding index (the index
\* file plus the ID-mapping file) is absent from disk is answered 503 by
\* /semantic_search.  (No step of the model removes a file: the files absent in
\* the state of the response were absent when the request was handled.)
C8_AbsentIndexIs503 ==
    (/\ call.op = "/semantic_search"
     /\ ~OnlyWhitespace(call.query)
     /\ (~indexFile.exists \/ ~mappingFile.exists))
        => call.status = 503

\* C9: a semantic query never returns results computed over a store and a loaded
\* index / ID mapping of different sizes.
C9_NoResultsOnMismatch ==
    (SemanticReturned /\ call.outcome.value # <<>>)
        => /\ Len(verses) = _faiss_index.ntotal
           /\ Len(verses) = Len(_verse_ids.ids)

\* C10: when no build is running and both artifacts exist, the index file holds as
\* many vectors as the mapping file has entries.
C10_ArtifactsAgree ==
    (build.pc = "idle" /\ indexFile.exists /\ mappingFile.exists)
        => indexFile.ntotal = Len(mappingFile.ids)

\* C11: generate_embeddings with force=False changes no artifact when the index
\* file and the mapping file both exist; with force=True it always rebuilds: it
\* writes the index file from the given verses, and the run that ends normally
\* leaves the index and the mapping it built from them.
C11_IdempotentBuild ==
    [][\A vs \in SystemStores :
          /\ (generate_embeddings(vs, FALSE) /\ indexFile.exists /\ mappingFile.exists)
                 => UNCHANGED <<indexFile, mappingFile, embeddingsFile>>
          /\ generate_embeddings(vs, TRUE)
                 => (build'.pc = "index_written" /\ indexFile' = IndexFileOf(Len(vs)))
          /\ (generate_embeddings_save /\ build'.last = "generated")
                 => (/\ indexFile' = IndexFileOf(build.n)
                     /\ mappingFile' = MappingFileOf(Range(build.n)))]_vars

----------------------------------------------------------------------------
(* Claims about concurrent first queries, checked under SpecLazy *)

\* C12: under any interleaving of concurrent first semantic queries the embedding
\* model and the vector index are each loaded at most once.
C12_LoadedAtMostOnce == loads.model <= 1 /\ loads.index <= 1

----------------------------------------------------------------------------
(* Claims about the request handlers and the commentary, checked under      *)
(* SpecService                                                              *)

CommentaryCall == call.op = "generate_commentary"

CommentaryReturned == CommentaryCall /\ call.outcome.kind = "return"

\* the exceptions the ranking step of /commentary can end with
RankingErrors == {"FileNotFoundError", "AssertionError", "TypeError", "IndexError"}

\* the first min(3, n) references of a verse list
FirstReferences(vs) == [i \in 1..Min(3, Len(vs)) |-> vs[i].reference]

\* C13: for a non-empty ranked verse list generate_commentary never raises: a
\* call that produced no validated commentary returns the fallback text built
\* from the first min(3, n) references; and /commentary answers 500 only when
\* the semantic ranking step failed.
C13_CommentaryFailureNonFatal ==
    /\ (CommentaryCall /\ call.verses # <<>>) =>
           /\ call.outcome.kind = "return"
           /\ (Get(call.outcome.value, "commentary_mode", "") = "fallback" =>
                  /\ \A i \in 1..Len(FirstReferences(call.verses)) :
                         Contains(call.outcome.value.commentary,
                                  FirstReferences(call.verses)[i])
                  /\ \A i \in 1..Len(call.verses) :
                         i > 3 => ~Contains(call.outcome.value.commentary,
                                            call.verses[i].reference))
    /\ (call.op = "/commentary" /\ call.status = 500) => call.detail \in RankingErrors

CommentaryModes == {"full", "fallback", "missing"}

\* C14: every value generate_commentary returns and every 200 of /commentary
\* carries a commentary_mode that is one of full, fallback, missing.
C14_ModeOnEveryPath ==
    /\ CommentaryReturned =>
           /\ "commentary_mode" \in DOMAIN call.outcome.value
           /\ call.outcome.value.commentary_mode \in CommentaryModes
    /\ (call.op = "/commentary" /\ call.status = 200) =>
           /\ "commentary_mode" \in DOMAIN call.body
           /\ call.body.commentary_mode \in CommentaryModes

\* C15: a /commentary request with use_cache=true that is answered with verses
\* for which a commentary was generated successfully before (same query, same
\* top verses; use_cache true or false at that time) is served from the cache
\* and returns that commentary.
C15_ServedFromCache ==
    [][(/\ call = Idle
        /\ call'.op = "/commentary"
        /\ call'.status = 200
        /\ call'.args.use_cache
        /\ call'.body.verses # <<>>
        /\ CacheKeyOf(call'.query, call'.body.verses) \in DOMAIN lastFull)
          => (/\ call'.body.metadata.model_info = [source |-> "cache"]
              /\ call'.body.commentary
                    = lastFull[CacheKeyOf(call'.query, call'.body.verses)])]_vars

Endpoints == {"/search", "/semantic_search", "/explain", "/commentary"}

\* C18: each of /search, /semantic_search, /explain and /commentary answers an
\* empty or whitespace-only query with 400, and has then written no log entry,
\* loaded no model or index, ranked nothing and touched no commentary cache.
C18_BlankQueryIs400 ==
    [][(call = Idle /\ call'.op \in Endpoints /\ OnlyWhitespace(call'.query))
          => (/\ call'.status = 400
              /\ call'.log = "none"
              /\ call'.body \in {<<>>, None}
              /\ UNCHANGED <<verses, diskVars, lazyVars, commentaryVars>>)]_vars

\* /commentary has answered a whitespace-only query with 400 although the index
\* is not on disk: the 400 comes before the index-existence check
C18_Witness ==
    /\ call.op = "/commentary"
    /\ Len(call.query) > 0
    /\ OnlyWhitespace(call.query)
    /\ call.status = 400
    /\ ~indexFile.exists

\* C19: no call of a ranker, of search_by_reference, of the explainers or of a
\* request handler changes the list of verses or a record in it.
C19_StoreReadOnly == [][verses' = verses]_vars

\* a handler has returned scored results and no stored verse carries a score
C19_Witness ==
    /\ call.op \in {"/search", "/explain", "/commentary"}
    /\ call.status = 200
    /\ (call.op = "/search" => call.body # <<>>)
    /\ (call.op # "/search" => call.body.verses # <<>>)
    /\ \A i \in 1..Len(verses) : "relevance_score" \notin DOMAIN verses[i]
    /\ Len(verses) > 0

----------------------------------------------------------------------------
(* Claims about concurrent commentary calls, checked under SpecCache *)

\* C16: when the concurrent calls for one cache key have all finished, each has
\* returned a commentary, and if any of them wrote the cache, the entry read
\* back is the commentary one of the writers wrote.
C16_LastWriterWins ==
    (\A t \in Threads : threads[t].pc = "done") =>
        /\ \A t \in Threads :
               /\ threads[t].outcome.kind = "return"
               /\ threads[t].outcome.value.commentary # <<>>
        /\ SharedKey \in DOMAIN cache =>
               \E t \in Threads :
                   /\ threads[t].commentary # <<>>
                   /\ _load_cache(SharedKey, cache) = Some(threads[t].commentary)

----------------------------------------------------------------------------
(* Claims about repeated calls on one store, checked under SpecStore *)

ReferenceCall == call.op = "search_by_reference"

\* two book names that differ at most in the case of their letters
SameIgnoringCase(a, b) ==
    /\ Len(a) = Len(b)
    /\ \A i \in 1..Len(a) : a[i] = b[i] \/ {a[i], b[i]} = {"a", "A"}

\* the verse is one the lookup in progress asks for
Wanted(v) ==
    /\ SameIgnoringCase(v.book, call.book)
    /\ v.chapter = call.chapter
    /\ (call.verse.set => v.verse = call.verse.value)

\* C20: search_by_reference raises nothing and returns exactly the stored
\* verses of the given book (ignoring case) and chapter, and of the given verse
\* number when one is supplied, in store order; the empty list when none.
C20_ReferenceLookup ==
    ReferenceCall =>
        /\ call.outcome.kind = "return"
        /\ \A k \in 1..Len(call.outcome.value) :
               /\ \E i \in 1..Len(verses) : verses[i] = call.outcome.value[k]
               /\ Wanted(call.outcome.value[k])
        /\ \A i \in 1..Len(verses) :
               Wanted(verses[i]) => \E k \in 1..Len(call.outcome.value) :
                                       call.outcome.value[k] = verses[i]
        /\ \A j, k \in 1..Len(call.outcome.value) :
               j < k => call.outcome.value[j].ref < call.outcome.value[k].ref

\* a lookup of one verse by a book name typed in another case than the stored
\* one, in a chapter that has more verses
C20_Witness ==
    /\ ReferenceCall
    /\ call.verse.set
    /\ Len(call.outcome.value) = 1
    /\ call.outcome.value[1].book # call.book
    /\ \E i \in 1..Len(verses) :
           /\ verses[i].book = call.outcome.value[1].book
           /\ verses[i].chapter = call.chapter
           /\ verses[i].verse # call.verse.value

----------------------------------------------------------------------------
(* Claims about the matching gate and the scoring, checked under SpecKeyword *)

\* the \w+ tokens of the stripped, lower-cased query
QueryTerms(query) == findall_w(strip(lower(query)), <<>>, <<>>)

\* the store positions the matching gate lets through: the stripped, lower-cased
\* query or one of its tokens is a substring of the lower-cased text
CandidateVerses(query) ==
    {i \in 1..Len(verses) :
        \/ Contains(lower(verses[i].text), strip(lower(query)))
        \/ \E t \in 1..Len(QueryTerms(query)) :
               Contains(lower(verses[i].text), QueryTerms(query)[t])}

\* C23: for a query that is not blank and a max_results that truncates nothing,
\* search_keyword returns a list in which every candidate verse (phrase or some
\* token of the query a substring of the text) and no other verse appears.
C23_CandidateGate ==
    (KeywordCall /\ ~OnlyWhitespace(call.query) /\ call.max_results >= Len(verses))
        => /\ call.outcome.kind = "return"
           /\ \A i \in 1..Len(verses) :
                  i \in CandidateVerses(call.query)
                      <=> \E k \in 1..Len(call.outcome.value) : call.outcome.value[k].ref = i

\* C27: search_keyword returns a list, raising nothing, for every query that is
\* not blank, a query without a word character included.
C27_NeverRaises ==
    (KeywordCall /\ ~OnlyWhitespace(call.query)) => call.outcome.kind = "return"

\* the number of entries of terms, repeats counted, that are substrings of text
RECURSIVE EntriesIn(_, _)
EntriesIn(text, terms) ==
    IF terms = <<>> THEN 0
    ELSE (IF Contains(text, Head(terms)) THEN 1 ELSE 0) + EntriesIn(text, Tail(terms))

\* the score in hundredths of a verse text for a query whose coverage is
\* entries / len(query_terms)
ScoreWithCoverage(text, query, entries) ==
    RoundHalfEven(
        100 * ScoreNum(lower(text), strip(lower(query)), QueryTerms(query),
                       Contains(lower(text), strip(lower(query))), entries, Len(text)),
        ScoreDen(QueryTerms(query)))

\* C30: for a query with a word token, every returned verse is scored with the
\* coverage (entries of query_terms found in the text, repeats counted) /
\* len(query_terms), which lies in [0, 1]; a verse that contains the whole
\* phrase contains every term, so its coverage is 1 and each term occurs in it
\* at least once (1.5 per term).
C30_Coverage ==
    (KeywordReturned /\ QueryTerms(call.query) # <<>>) =>
        \A k \in 1..Len(call.outcome.value) :
            LET text == call.outcome.value[k].text
                terms == QueryTerms(call.query)
                entries == EntriesIn(lower(text), terms)
            IN  /\ 0 <= entries /\ entries <= Len(terms)
                /\ call.outcome.value[k].relevance_score
                       = ScoreWithCoverage(text, call.query, entries)
                /\ Contains(lower(text), strip(lower(call.query))) =>
                       /\ entries = Len(terms)
                       /\ \A t \in 1..Len(terms) : count(lower(text), terms[t]) >= 1

\* a two-term query returning a verse that contains the whole phrase and a
\* verse that contains one of the two terms only
C30_Witness ==
    /\ KeywordReturned
    /\ Len(QueryTerms(call.query)) = 2
    /\ \E k \in 1..Len(call.outcome.value) :
           Contains(lower(call.outcome.value[k].text), strip(lower(call.query)))
    /\ \E k \in 1..Len(call.outcome.value) :
           EntriesIn(lower(call.outcome.value[k].text), QueryTerms(call.query)) = 1

----------------------------------------------------------------------------
(* Claims about the score of long verses, checked under SpecLongVerse *)

\* the returned entry k contains the whole phrase of the query
ExactMatchEntry(k) ==
    Contains(lower(call.outcome.value[k].text), strip(lower(call.query)))

\* C25 as stated: every returned verse that contains the whole phrase of the
\* query has relevance_score >= 10.0, whatever the length of its text.
C25_ExactMatchAtLeastTen ==
    KeywordReturned =>
        \A k \in 1..Len(call.outcome.value) :
            ExactMatchEntry(k) => call.outcome.value[k].relevance_score >= 1000

\* C25, amended: every returned verse that contains the whole phrase of the
\* query has relevance_score >= 18.5 - text_length / 500 rounded to hundredths
\* (10.0 + 2.0 for the phrase, 1.5 for a term, 5.0 for the coverage), which is
\* >= 10.0 for every text of at most 4252 characters.
C25_ExactMatchFloor ==
    KeywordReturned =>
        \A k \in 1..Len(call.outcome.value) :
            ExactMatchEntry(k) =>
                /\ call.outcome.value[k].relevance_score
                       >= RoundHalfEven(1850 * LengthDivisor
                                          - 100 * Len(call.outcome.value[k].text),
                                        LengthDivisor)
                /\ Len(call.outcome.value[k].text) <= 4252
                       => call.outcome.value[k].relevance_score >= 1000

\* a verse of 4252 characters that contains the query once, at its end, returned
\* with exactly 10.0
C25_Witness ==
    /\ KeywordReturned
    /\ \E k \in 1..Len(call.outcome.value) :
           /\ ExactMatchEntry(k)
           /\ Len(call.outcome.value[k].text) = 4252
           /\ call.outcome.value[k].relevance_score = 1000

----------------------------------------------------------------------------
(* Claims about the ranking of search_semantic, checked under Spec *)

\* the positions of the answer of the index whose similarity is at least the
\* min_similarity in force
AcceptedPositions ==
    {i \in 1..Len(call.hits.value) :
        call.hits.value[i].similarity >= Threshold(call.min_similarity)}

\* the j-th smallest element of a set of numbers
NthOf(S, j) == CHOOSE x \in S : Cardinality({y \in S : y < x}) = j - 1

\* the stored verse the candidate at position i of the answer stands for
VerseOfCandidate(i) == verses[_verse_ids.ids[call.hits.value[i].idx + 1] + 1]

\* C24: when search_semantic returns after searching the index, the index was
\* asked for min(3 * max_results, index size) neighbours and the result is, in
\* the order of that answer, the first max_results of the neighbours whose
\* similarity is at least min_similarity, each with its similarity rounded to 4
\* decimals; the scores are therefore non-increasing.
C24_FirstAcceptedInIndexOrder ==
    (SemanticReturned /\ call.hits.kind = "return") =>
        /\ Len(call.hits.value) = Min(3 * call.max_results, _faiss_index.ntotal)
        /\ Len(call.outcome.value) = Min(call.max_results, Cardinality(AcceptedPositions))
        /\ \A j \in 1..Len(call.outcome.value) :
               LET i == NthOf(AcceptedPositions, j)
               IN  /\ call.outcome.value[j].ref = VerseOfCandidate(i).ref
                   /\ call.outcome.value[j].text = VerseOfCandidate(i).text
                   /\ call.outcome.value[j].relevance_score
                          = Round4(call.hits.value[i].similarity)
        /\ \A j, k \in 1..Len(call.outcome.value) :
               j < k => call.outcome.value[j].relevance_score
                          >= call.outcome.value[k].relevance_score

\* the index, smaller than 3 * max_results, answered with the later verse of
\* the store first: the result has both neighbours in the order of the index
\* and not of the store
C24_Witness ==
    /\ SemanticReturned
    /\ call.hits.kind = "return"
    /\ Len(call.hits.value) < 3 * call.max_results
    /\ Len(call.outcome.value) >= 2
    /\ call.outcome.value[1].ref > call.outcome.value[2].ref

----------------------------------------------------------------------------
(* Claims about the lazily loaded index, checked under SpecLazy *)

\* C28: _faiss_index is set only if _verse_ids is set, in every state in which
\* no call is between the two assignments of _load_index, and every call of
\* _load_index that returned handed out an index together with its mapping,
\* concurrent first calls included.
C28_IndexOnlyWithMapping ==
    /\ (_faiss_index.set /\ \A t \in Threads : threads[t].pc # "mapping_reading")
           => _verse_ids.set
    /\ \A t \in Threads :
           threads[t].pc \in {"rank", "done"} /\ threads[t].index.set
               => threads[t].ids.set

----------------------------------------------------------------------------
(* Claims about the commentary cache key, checked under SpecKey *)

\* the set of the references a cache key is made from
ReferenceSet(c) ==
    {c.verses[i].reference : i \in 1..Min(Len(c.verses), CachedVerseIds)}

\* C26: two calls of generate_commentary use the same cache entry exactly when
\* they have the same query and the same set of first-10 verse references:
\* the order of the references and the verses after the tenth do not matter,
\* and a different query or reference set gives a different entry.
C26_KeyOfQueryAndReferenceSet ==
    (call.op = "cache_key" /\ memo # Idle) =>
        (call.cache_key = memo.call.cache_key
            <=> /\ call.query = memo.call.query
                /\ ReferenceSet(call) = ReferenceSet(memo.call))

----------------------------------------------------------------------------
(* Claims about the writes of the commentary cache, checked under SpecService *)

\* the call c is a generate_commentary call, made directly or by /commentary
\* with a non-empty ranking, that returned
GeneratedFor(c) ==
    \/ c.op = "generate_commentary" /\ c.outcome.kind = "return"
    \/ c.op = "/commentary" /\ c.status = 200 /\ c.body.verses # <<>>

UseCacheOf(c) == IF c.op = "/commentary" THEN c.args.use_cache ELSE c.use_cache

VersesOf(c) == IF c.op = "/commentary" THEN c.body.verses ELSE c.verses

CommentaryOf(c) ==
    IF c.op = "/commentary" THEN c.body.commentary ELSE c.outcome.value.commentary

ModelInfoOf(c) ==
    IF c.op = "/commentary" THEN c.body.metadata.model_info
    ELSE c.outcome.value.model_info

----------------------------------------------------------------------------
(* Claims about the explanations, checked under SpecExplain *)

ExplainCall == call.op = "explain"

IsEntry(part) == part.kind = "entry"

\* the formatted entries of the explanation in progress, in order
EntriesShown == SelectSeq(call.explanation, IsEntry)

\* C21: for a non-empty result list the explanation has exactly
\* min(max_verses, len(results)) entries, ranked 1..shown, entry i being
\* result i; its first part reports that shown count and the total
\* len(results), except that explain_results on a single result begins
\* "I found 1 verse related to '<query>':".
C21_ShownEntries ==
    (ExplainCall /\ call.verses # <<>>) =>
        LET shown == Min(call.max_verses, Len(call.verses))
        IN  /\ Len(EntriesShown) = shown
            /\ \A i \in 1..Len(EntriesShown) :
                   /\ EntriesShown[i].rank = i
                   /\ i <= Len(call.verses)
                   /\ EntriesShown[i].reference = call.verses[i].reference
                   /\ EntriesShown[i].text = call.verses[i].text
            /\ IF ~call.semantic /\ Len(call.verses) = 1
               THEN call.explanation[1] = [kind |-> "found_one", query |-> call.query]
               ELSE /\ call.explanation[1].total = Len(call.verses)
                    /\ call.explanation[1].shown = shown

IsThemes(part) == part.kind = "themes"

\* the common-themes lines of the explanation in progress
ThemesLines == SelectSeq(call.explanation, IsThemes)

\* the tokens of the texts of entries[i..], lower-cased, in order
RECURSIVE TokensOf(_, _)
TokensOf(entries, i) ==
    IF i > Len(entries) THEN <<>>
    ELSE Words(entries[i].text) \o TokensOf(entries, i + 1)

Occurs(tokens, w) == Cardinality({i \in 1..Len(tokens) : tokens[i] = w})

FirstOccurrence(tokens, w) == SetMin({i \in 1..Len(tokens) : tokens[i] = w})

\* the tokens that qualify as a theme for the query of the call
ThemeWords(tokens) ==
    LET query_words == Words(call.query)
    IN  {w \in {tokens[i] : i \in 1..Len(tokens)} :
            /\ Len(w) >= MinThemeLength
            /\ Occurs(tokens, w) >= MinFrequency
            /\ w \notin StopWords
            /\ \A i \in 1..Len(query_words) : query_words[i] # w}

\* w ranks before v: it is more frequent, or as frequent and met earlier
RanksBefore(tokens, w, v) ==
    \/ Occurs(tokens, w) > Occurs(tokens, v)
    \/ /\ Occurs(tokens, w) = Occurs(tokens, v)
       /\ FirstOccurrence(tokens, w) < FirstOccurrence(tokens, v)

\* the themes line lists the first n theme words of the shown texts by rank,
\* in rank order
ListsTop(n) ==
    LET ws == ThemesLines[1].words
        tokens == TokensOf(EntriesShown, 1)
        themes == ThemeWords(tokens)
    IN  /\ Len(ws) = Min(n, Cardinality(themes))
        /\ \A i \in 1..Len(ws) : ws[i] \in themes
        /\ \A i, j \in 1..Len(ws) : i < j => RanksBefore(tokens, ws[i], ws[j])
        /\ \A v \in themes :
               (\A i \in 1..Len(ws) : ws[i] # v)
                   => \A i \in 1..Len(ws) : RanksBefore(tokens, ws[i], v)

\* C22 as stated: explain_semantic_results has a common-themes line only when
\* at least 3 results are shown, and the line lists the top 10 theme words
\* (tokens of length >= 4 occurring at least twice in the shown texts, neither
\* stop words nor query words) by frequency, ties by first occurrence.
C22_TopTenThemes ==
    (ExplainCall /\ call.semantic /\ ThemesLines # <<>>) =>
        /\ Len(ThemesLines) = 1
        /\ Len(EntriesShown) >= 3
        /\ ListsTop(ThemesKept)

\* C22, amended: the line lists the top 5 of those theme words.
C22_TopFiveThemes ==
    (ExplainCall /\ call.semantic /\ ThemesLines # <<>>) =>
        /\ Len(ThemesLines) = 1
        /\ Len(EntriesShown) >= 3
        /\ ListsTop(ThemesShown)

\* a themes line of 5 words out of 6 that qualify, led by a word that is more
\* frequent than the one met first, with a tie behind it
C22_Witness ==
    /\ ExplainCall
    /\ call.semantic
    /\ ThemesLines # <<>>
    /\ LET ws == ThemesLines[1].words
           tokens == TokensOf(EntriesShown, 1)
       IN  /\ Cardinality(ThemeWords(tokens)) > ThemesShown
           /\ Len(ws) = ThemesShown
           /\ FirstOccurrence(tokens, ws[1]) > FirstOccurrence(tokens, ws[2])
           /\ Occurs(tokens, ws[2]) = Occurs(tokens, ws[3])

====
